---- MODULE Spec2Model ----
(***************************************************************************)
(* State-machine model of the task-controller library:                     *)
(*   - LockController  (src/src/locks/lock-controller.ts)                  *)
(*   - TaskController  (src/src/tasks/task-controller.ts)                  *)
(*   - OptionsSanitizerUtils (src/src/utils/options-sanitizer.utils.ts)    *)
(* An optional value (undefined / a value) is a set with zero or one       *)
(* element, so that `a ?? b` is Coalesce(a, b).                            *)
(***************************************************************************)
EXTENDS Integers, Sequences, FiniteSets, TLC

\* ------------------------------------------------------------------ bounds
\* number of lock requesters (acquire / tryAcquire callers)
MaxRequesters == 3
\* number of task submissions (run / runWithOptions / tryRun callers)
MaxTasks == 3
\* largest concurrency value passed to a constructor or changeConcurrentLimit
MaxLimit == 2
\* number of times a requester calls the release function it was given
MaxReleaseCalls == 2
\* the largest limit passed to changeConcurrentLimit where a raise by two matters
MaxRaisedLimit == 3
\* number of steps N of a MultiStepController
NumSteps == 2

Requesters == 1..MaxRequesters
Tasks == 1..MaxTasks

\* ------------------------------------------------------------- generalities
\* a ?? b
Coalesce(a, b) == IF a = {} THEN b ELSE CHOOSE v \in a : TRUE

\* Array.prototype.splice(index, 1) / Map.prototype.delete on an ordered map
Remove(seq, x) == SelectSeq(seq, LAMBDA y : y # x)

\* Array.prototype.indexOf(x) > -1
Contains(seq, x) == \E i \in 1..Len(seq) : seq[i] = x

\* all but the last element (the array after pop())
Front(seq) == SubSeq(seq, 1, Len(seq) - 1)

\* ------------------------------------------------- OptionsSanitizerUtils
\* A raw constructor input for `concurrency`.  A number is given in tenths
\* (15 is 1.5) so that non-integers can be written with integers.
RawConcurrency ==
    [kind : {"undefined", "null", "string", "NaN", "Infinity", "-Infinity"}, tenths : {0}]
      \cup [kind : {"number"}, tenths : (-15)..(10 * MaxLimit)]

\* Math.round: the nearest integer, ties towards +Infinity
MathRound(tenths) == (tenths + 5) \div 10

\* Number.isInteger
NumberIsInteger(tenths) == tenths % 10 = 0

\* sanitizeNumberToPositiveGraterThanZeroInteger(value, defaultValue)
sanitizeNumberToPositiveGraterThanZeroInteger(value, defaultValue) ==
    IF value.kind \in {"null", "undefined"} THEN defaultValue
    ELSE IF value.kind = "string" THEN defaultValue
    ELSE IF value.kind = "NaN" THEN defaultValue
    ELSE IF value.kind \in {"Infinity", "-Infinity"} THEN defaultValue
    ELSE IF ~NumberIsInteger(value.tenths) THEN {MathRound(value.tenths)}
    ELSE IF value.tenths <= 0 THEN defaultValue
    ELSE {value.tenths \div 10}

\* default concurrency of both controllers (defaultOptions.concurrency)
DefaultConcurrency == 1

\* sanitizeOptions: options.concurrency after the constructor ran.  The
\* sanitizer is called without a default, an undefined result deletes the
\* key and sanitizeToRequired then fills in defaultOptions.concurrency.
sanitizeOptions(rawConcurrency) ==
    Coalesce(sanitizeNumberToPositiveGraterThanZeroInteger(rawConcurrency, {}),
             DefaultConcurrency)

QueueTypes == {"FIFO", "LIFO"}

\* =========================================================== LockController
VARIABLES
    lockOptions,        \* this.options: concurrency, queueType, releaseTimeout
    lockWaitingQueue,   \* this.waitingQueue (array of WaitingLock)
    acquiredQueue,      \* this.acquiredQueue (Map, in insertion order)
    lockTimeoutId,      \* AcquiredLock.releaseTimeoutId is armed
    req,                \* position of each requester
    calls,              \* how often each requester has called its release function
    lockLog,            \* events emitted for each permit, in order
    lockHandlerLog,     \* per permit: the calls of options.releaseTimeoutHandler, each
                        \* with the number of events emitted before it and its outcome
    lockErrorListener   \* whether a listener of the lock's 'error' event is registered

lockVars == <<lockOptions, lockWaitingQueue, acquiredQueue, lockTimeoutId, req, calls, lockLog,
              lockHandlerLog, lockErrorListener>>

\* the lock's fields as one value, so that a handler's nested calls compose
LockState ==
    [options |-> lockOptions, waitingQueue |-> lockWaitingQueue,
     acquiredQueue |-> acquiredQueue, timeoutId |-> lockTimeoutId,
     req |-> req, calls |-> calls, log |-> lockLog,
     handlerLog |-> lockHandlerLog, errorListener |-> lockErrorListener]

SetLockState(l) ==
    \E v \in {l} :
        /\ lockOptions' = v.options
        /\ lockWaitingQueue' = v.waitingQueue
        /\ acquiredQueue' = v.acquiredQueue
        /\ lockTimeoutId' = v.timeoutId
        /\ req' = v.req
        /\ calls' = v.calls
        /\ lockLog' = v.log
        /\ lockHandlerLog' = v.handlerLog
        /\ lockErrorListener' = v.errorListener

\* isAvailable()
LockIsAvailable(l) == ~(Len(l.acquiredQueue) >= l.options.concurrency)

\* getNextLockToRun() returning the head of the queue whatever the queueType
getNextLockToRun_Shift(l) ==
    IF l.waitingQueue = <<>> THEN {}
    ELSE {Head(l.waitingQueue)}

\* getNextLockToRun(): the waiter shift()/pop() returns (none on an empty queue)
getNextLockToRun(l) ==
    IF l.waitingQueue = <<>> THEN {}
    ELSE IF l.options.queueType = "FIFO" THEN {Head(l.waitingQueue)}
    ELSE {l.waitingQueue[Len(l.waitingQueue)]}

\* the waiting queue after getNextLockToRun()
LockQueueAfterNext(l) ==
    IF l.waitingQueue = <<>> THEN <<>>
    ELSE IF l.options.queueType = "FIFO" THEN Tail(l.waitingQueue)
    ELSE Front(l.waitingQueue)

\* start() with buildReleaseFunction(): a new AcquiredLock, its release timer
\* armed when releaseTimeout > 0, set in the map, lock-acquired emitted
LockStart(l, r) ==
    [l EXCEPT !.timeoutId[r] = (l.options.releaseTimeout > 0),
              !.acquiredQueue = Append(l.acquiredQueue, r),
              !.log[r] = Append(l.log[r], "lock-acquired")]

\* dispatchNextLock(); resolve() hands the release function to the waiter
dispatchNextLock(l) ==
    IF ~LockIsAvailable(l) THEN l
    ELSE LET next == getNextLockToRun(l) IN
         IF next = {} THEN l
         ELSE LET r == CHOOSE x \in next : TRUE
                  l1 == [l EXCEPT !.waitingQueue = LockQueueAfterNext(l)]
                  l2 == LockStart(l1, r)
              IN [l2 EXCEPT !.req[r] = "holding"]

\* the release function without its acquiredQueue.has(lockEntry) guard
LockReleaseFunction_Unguarded(l, r, timeoutReached) ==
    LET l1 == [l EXCEPT !.timeoutId[r] = FALSE,
                        !.acquiredQueue = Remove(l.acquiredQueue, r),
                        !.log[r] = Append(l.log[r],
                            IF timeoutReached THEN "lock-released(true)"
                            ELSE "lock-released(false)")]
    IN dispatchNextLock(l1)

\* the release function without its call of dispatchNextLock
LockReleaseFunction_NoDispatch(l, r, timeoutReached) ==
    IF ~Contains(l.acquiredQueue, r) THEN l
    ELSE [l EXCEPT !.timeoutId[r] = FALSE,
                   !.acquiredQueue = Remove(l.acquiredQueue, r),
                   !.log[r] = Append(l.log[r],
                       IF timeoutReached THEN "lock-released(true)"
                       ELSE "lock-released(false)")]

\* the release function built by buildReleaseFunction(lockEntry)
LockReleaseFunction(l, r, timeoutReached) ==
    IF ~Contains(l.acquiredQueue, r) THEN l
    ELSE LET l1 == [l EXCEPT !.timeoutId[r] = FALSE,
                             !.acquiredQueue = Remove(l.acquiredQueue, r),
                             !.log[r] = Append(l.log[r],
                                 IF timeoutReached THEN "lock-released(true)"
                                 ELSE "lock-released(false)")]
         IN dispatchNextLock(l1)

\* releaseAcquiredLocks() releasing the first permit of the copy only
LockReleaseAll_FirstOnly(l, copy) ==
    IF copy = <<>> THEN l ELSE LockReleaseFunction(l, Head(copy), FALSE)

\* the loop of releaseAcquiredLocks() over the copy of the map
RECURSIVE LockReleaseAll(_, _)
LockReleaseAll(l, copy) ==
    IF copy = <<>> THEN l
    ELSE LockReleaseAll(LockReleaseFunction(l, Head(copy), FALSE), Tail(copy))

\* timeouts in ms given to the constructors and per task: disabled, enabled
Timeouts == {0, 30}

\* new LockController(options)
LockConstructor(rawConcurrency, qt, rt) ==
    /\ lockOptions = [concurrency |-> sanitizeOptions(rawConcurrency), queueType |-> qt,
                      releaseTimeout |-> rt]
    /\ lockWaitingQueue = <<>>
    /\ acquiredQueue = <<>>
    /\ lockTimeoutId = [r \in Requesters |-> FALSE]
    /\ req = [r \in Requesters |-> "idle"]
    /\ calls = [r \in Requesters |-> 0]
    /\ lockLog = [r \in Requesters |-> <<>>]
    /\ lockHandlerLog = [r \in Requesters |-> <<>>]
    /\ lockErrorListener = FALSE

\* ====================================================== MultiStepController
VARIABLES
    stepLocks       \* this.stepLocks: the LockControllers of the steps, in order

stepVars == <<stepLocks>>

\* the values of stepConcurrencies: 1, 2, 0.4 and -0.6
StepRawConcurrency == [kind : {"number"}, tenths : {10, 20, 4, -6}]

\* new LockController({ concurrency: concurrentLimit }): the other options
\* are the defaults
NewStepLock(concurrentLimit) ==
    [options |-> [concurrency |-> sanitizeOptions(concurrentLimit), queueType |-> "FIFO",
                  releaseTimeout |-> 0],
     waitingQueue |-> <<>>, acquiredQueue |-> <<>>,
     timeoutId |-> [r \in Requesters |-> FALSE],
     req |-> [r \in Requesters |-> "idle"],
     calls |-> [r \in Requesters |-> 0],
     log |-> [r \in Requesters |-> <<>>],
     handlerLog |-> [r \in Requesters |-> <<>>],
     errorListener |-> FALSE]

\* new MultiStepController({ stepConcurrencies })
StepConstructor(stepConcurrencies) ==
    stepLocks = [i \in 1..Len(stepConcurrencies) |-> NewStepLock(stepConcurrencies[i])]

\* no MultiStepController is constructed
NoStepController == stepLocks = <<>>

\* releaseAcquiredLocks() of one lock
releaseAcquiredLocks(l) ==
    IF Len(l.acquiredQueue) = 0 THEN l ELSE LockReleaseAll(l, l.acquiredQueue)

\* isStepLockLimitReached(stepIndex) with an index that counts from 1
isStepLockLimitReached_OneBased(stepIndex) ==
    IF stepIndex \notin DOMAIN stepLocks THEN FALSE
    ELSE ~LockIsAvailable(stepLocks[stepIndex])

\* isStepLockLimitReached(stepIndex); the index counts from 0
isStepLockLimitReached(stepIndex) ==
    IF stepIndex + 1 \notin DOMAIN stepLocks THEN FALSE
    ELSE ~LockIsAvailable(stepLocks[stepIndex + 1])

\* =========================================================== TaskController
VARIABLES
    options,        \* this.options: concurrency, queueType, releaseTimeout, waitingTimeout
    aborted,        \* AbortSignal.aborted: of the controller's signal (0), of task t's own (t)
    waitingQueue,   \* this.waitingQueue (array of WaitingTask)
    runningQueue,   \* this.runningQueue (Map, in insertion order)
    expiredQueue,   \* this.expiredQueue (Set)
    entry,          \* the task entries: options, armed timers, reasons
    pc,             \* position of each caller in tryRun / enqueueAndRun
    log,            \* per task: events emitted and the callable's invocation, in order
    startOrder,     \* tasks in the order of their task-started events
    submitOrder,    \* tasks in the order of their enqueueAndRun calls
    handlerLog,     \* per task: the handlers of the options called for it, in order
    errorListener,  \* whether a listener of the 'error' event is registered
    handlerView     \* per task: what releaseTimeoutHandler, called in the last step, found

taskVars == <<options, aborted, waitingQueue, runningQueue, expiredQueue, entry, pc, log,
              startOrder, submitOrder, handlerLog, errorListener, handlerView>>

\* the signal of the controller (options.signal)
ControllerSignal == 0
Signals == {ControllerSignal} \cup Tasks

\* TaskOptions absent, or with no key set
NoOptions == [waitingTimeout |-> {}, releaseTimeout |-> {}, signal |-> {}]

\* An argument list is a sequence of values, possibly held as the only
\* element of an array, that array as the only element of another, and so
\* on: `wraps` counts the enclosing one-element arrays.
Arguments(items) == [wraps |-> 0, items |-> items]
NoArgs == Arguments(<<>>)

\* the rest parameter `...args` of a function called as f(...a)
Spread(a) == a

\* the rest parameter `...args` of a function called as f(a), the array `a`
\* passed as one argument: an array whose only element is `a`
AsOneArgument(a) == [a EXCEPT !.wraps = @ + 1]

\* the arguments caller t passes after the task: none, one, two, ...
CallerArgs(t) == [i \in 1..(t - 1) |-> i]

\* a task entry that does not exist (yet)
NoEntry == [options |-> NoOptions, waitingTimeoutId |-> FALSE, releaseTimeoutId |-> FALSE,
            discardReason |-> "none", releaseReason |-> "none",
            args |-> NoArgs, waitingTimerDelay |-> 0, releaseTimerDelay |-> 0]

\* the per-task timeouts a caller passes in its options
PerTaskTimeouts == {0, 60}

\* the per-task options a caller passes: each of waitingTimeout and
\* releaseTimeout absent or given
TimeoutChoices ==
    {[NoOptions EXCEPT !.waitingTimeout = w, !.releaseTimeout = r] :
        w, r \in {{}} \cup {{x} : x \in PerTaskTimeouts}}

\* the per-task options a caller passes: none, or its own signal
SignalChoices(t) == {NoOptions, [NoOptions EXCEPT !.signal = {t}]}

\* no handler is being called
NoHandlerView == [t \in Tasks |-> {}]

\* the controller's fields as one value, so that a handler's nested calls compose
TaskState ==
    [options |-> options, aborted |-> aborted, waitingQueue |-> waitingQueue,
     runningQueue |-> runningQueue, expiredQueue |-> expiredQueue, entry |-> entry,
     pc |-> pc, log |-> log, startOrder |-> startOrder, submitOrder |-> submitOrder,
     handlerLog |-> handlerLog, errorListener |-> errorListener,
     handlerView |-> NoHandlerView]

\* the fields assigned from such a value (computed once)
SetTaskState(s) ==
    \E v \in {s} :
        /\ options' = v.options
        /\ aborted' = v.aborted
        /\ waitingQueue' = v.waitingQueue
        /\ runningQueue' = v.runningQueue
        /\ expiredQueue' = v.expiredQueue
        /\ entry' = v.entry
        /\ pc' = v.pc
        /\ log' = v.log
        /\ startOrder' = v.startOrder
        /\ submitOrder' = v.submitOrder
        /\ handlerLog' = v.handlerLog
        /\ errorListener' = v.errorListener
        /\ handlerView' = v.handlerView

\* this.emit(event, taskEntry)
Emit(s, t, event) == [s EXCEPT !.log[t] = Append(s.log[t], event)]

\* a handler of the options (waitingTimeoutHandler, releaseTimeoutHandler,
\* errorHandler) is called with the entry
CallHandler(s, t, handler) == [s EXCEPT !.handlerLog[t] = Append(s.handlerLog[t], handler)]

\* timeoutHandler(taskEntry) in the release timer's callback: the handler
\* finds the controller as the callback has left it so far (whether the entry
\* is running, whether it is expired, how many task-started events were emitted)
CallReleaseTimeoutHandler(s, t) ==
    CHOOSE r \in {[CallHandler(v, t, "releaseTimeoutHandler") EXCEPT
                      !.handlerView[t] = {[running |-> Contains(v.runningQueue, t),
                                           expired |-> t \in v.expiredQueue,
                                           started |-> Len(v.startOrder)]}] : v \in {s}} : TRUE

\* such a call ends with an exception
CallHandlerThrows(s, t, handler) ==
    [s EXCEPT !.handlerLog[t] = s.handlerLog[t] \o <<handler, "threw">>]

\* An entry that left the waiting, running and expired collections is no
\* longer referenced by the controller: its options and arguments are dropped
\* from the state (its reasons stay, for the listeners that were handed the
\* entry).
Unreference(s, t) == [s EXCEPT !.entry[t].options = NoOptions, !.entry[t].args = NoArgs]

\* isAvailable() comparing with > instead of >=: one task too many is admitted
isAvailable_OffByOne(s) == ~(Len(s.runningQueue) > s.options.concurrency)

\* isAvailable()
isAvailable(s) == ~(Len(s.runningQueue) >= s.options.concurrency)

\* getNextTaskToRun() taking the head of the queue whatever the queueType
RECURSIVE getNextTaskToRun_Shift(_)
getNextTaskToRun_Shift(s) ==
    IF s.waitingQueue = <<>> THEN [state |-> s, taskEntry |-> {}]
    ELSE LET t == Head(s.waitingQueue)
             rest == Tail(s.waitingQueue)
             s1 == [s EXCEPT !.waitingQueue = rest, !.entry[t].waitingTimeoutId = FALSE]
             signal == Coalesce(s.entry[t].options.signal, ControllerSignal)
         IN IF s.aborted[signal]
              THEN getNextTaskToRun_Shift(
                     Unreference(Emit([s1 EXCEPT !.entry[t].discardReason = "abortSignal"],
                                      t, "task-discarded"), t))
              ELSE [state |-> s1, taskEntry |-> {t}]

\* getNextTaskToRun() without its clearTimeout
RECURSIVE getNextTaskToRun_NoClearTimeout(_)
getNextTaskToRun_NoClearTimeout(s) ==
    IF s.waitingQueue = <<>> THEN [state |-> s, taskEntry |-> {}]
    ELSE LET t == IF s.options.queueType = "FIFO" THEN Head(s.waitingQueue)
                  ELSE s.waitingQueue[Len(s.waitingQueue)]
             rest == IF s.options.queueType = "FIFO" THEN Tail(s.waitingQueue)
                     ELSE Front(s.waitingQueue)
             s1 == [s EXCEPT !.waitingQueue = rest]
             signal == Coalesce(s.entry[t].options.signal, ControllerSignal)
         IN IF s.aborted[signal]
              THEN getNextTaskToRun_NoClearTimeout(
                     Unreference(Emit([s1 EXCEPT !.entry[t].discardReason = "abortSignal"],
                                      t, "task-discarded"), t))
              ELSE [state |-> s1, taskEntry |-> {t}]

\* getNextTaskToRun() reading the signal of the task options only
RECURSIVE getNextTaskToRun_OwnSignalOnly(_)
getNextTaskToRun_OwnSignalOnly(s) ==
    IF s.waitingQueue = <<>> THEN [state |-> s, taskEntry |-> {}]
    ELSE LET t == IF s.options.queueType = "FIFO" THEN Head(s.waitingQueue)
                  ELSE s.waitingQueue[Len(s.waitingQueue)]
             rest == IF s.options.queueType = "FIFO" THEN Tail(s.waitingQueue)
                     ELSE Front(s.waitingQueue)
             s1 == [s EXCEPT !.waitingQueue = rest, !.entry[t].waitingTimeoutId = FALSE]
         IN IF s.entry[t].options.signal # {} /\ s.aborted[t]
              THEN getNextTaskToRun_OwnSignalOnly(
                     Unreference(Emit([s1 EXCEPT !.entry[t].discardReason = "abortSignal"],
                                      t, "task-discarded"), t))
              ELSE [state |-> s1, taskEntry |-> {t}]

\* getNextTaskToRun() reading the signal of the controller only
RECURSIVE getNextTaskToRun_ControllerSignal(_)
getNextTaskToRun_ControllerSignal(s) ==
    IF s.waitingQueue = <<>> THEN [state |-> s, taskEntry |-> {}]
    ELSE LET t == IF s.options.queueType = "FIFO" THEN Head(s.waitingQueue)
                  ELSE s.waitingQueue[Len(s.waitingQueue)]
             rest == IF s.options.queueType = "FIFO" THEN Tail(s.waitingQueue)
                     ELSE Front(s.waitingQueue)
             s1 == [s EXCEPT !.waitingQueue = rest, !.entry[t].waitingTimeoutId = FALSE]
         IN IF s.aborted[ControllerSignal]
              THEN getNextTaskToRun_ControllerSignal(
                     Unreference(Emit([s1 EXCEPT !.entry[t].discardReason = "abortSignal"],
                                      t, "task-discarded"), t))
              ELSE [state |-> s1, taskEntry |-> {t}]

\* getNextTaskToRun(): the state after it, and the entry it returns (none: {})
RECURSIVE getNextTaskToRun(_)
getNextTaskToRun(s) ==
    IF s.waitingQueue = <<>> THEN [state |-> s, taskEntry |-> {}]
    ELSE LET t == IF s.options.queueType = "FIFO" THEN Head(s.waitingQueue)
                  ELSE s.waitingQueue[Len(s.waitingQueue)]
             rest == IF s.options.queueType = "FIFO" THEN Tail(s.waitingQueue)
                     ELSE Front(s.waitingQueue)
             s1 == [s EXCEPT !.waitingQueue = rest, !.entry[t].waitingTimeoutId = FALSE]
             signal == Coalesce(s.entry[t].options.signal, ControllerSignal)
         IN IF s.aborted[signal]
              THEN getNextTaskToRun(
                     Unreference(Emit([s1 EXCEPT !.entry[t].discardReason = "abortSignal"],
                                      t, "task-discarded"), t))
              ELSE [state |-> s1, taskEntry |-> {t}]

\* start() with buildReleaseFunction(): the RunningTask, its release timer armed
\* when the effective releaseTimeout > 0, set in the map, task-started emitted
start(s, t) ==
    LET releaseTimeout == Coalesce(s.entry[t].options.releaseTimeout, s.options.releaseTimeout)
        s1 == [s EXCEPT !.entry[t].releaseTimeoutId = (releaseTimeout > 0),
                        !.entry[t].releaseTimerDelay =
                            IF releaseTimeout > 0 THEN releaseTimeout ELSE 0,
                        !.runningQueue = Append(s.runningQueue, t),
                        !.startOrder = Append(s.startOrder, t)]
    IN Emit(s1, t, "task-started")

\* dispatchNextTask(); resolve() lets the waiter's enqueueAndRun continue
dispatchNextTask(s) ==
    IF ~isAvailable(s) THEN s
    ELSE LET next == getNextTaskToRun(s) IN
         IF next.taskEntry = {} THEN next.state
         ELSE LET t == CHOOSE x \in next.taskEntry : TRUE
              IN [start(next.state, t) EXCEPT !.pc[t] = "resolved"]

\* the release function freeing the slot without dispatchNextTask()
releaseFunction_NoDispatch(s, t, reason) ==
    LET s1 == IF t \in s.expiredQueue
                THEN Unreference(Emit([s EXCEPT !.expiredQueue = s.expiredQueue \ {t}],
                                      t, "task-finished"), t)
                ELSE s
    IN IF ~Contains(s1.runningQueue, t) THEN s1
       ELSE LET s2 == [s1 EXCEPT !.entry[t].releaseTimeoutId = FALSE,
                                 !.runningQueue = Remove(s1.runningQueue, t)]
            IN IF reason \in {"timeoutReached", "forced"}
                 THEN Emit([s2 EXCEPT !.entry[t].releaseReason = reason,
                                      !.expiredQueue = s2.expiredQueue \cup {t}],
                           t, "task-released-before-finished")
                 ELSE Unreference(Emit(s2, t, "task-finished"), t)

\* the release function leaving the task in the running map
releaseFunction_NoDelete(s, t, reason) ==
    LET s1 == IF t \in s.expiredQueue
                THEN Unreference(Emit([s EXCEPT !.expiredQueue = s.expiredQueue \ {t}],
                                      t, "task-finished"), t)
                ELSE s
    IN IF ~Contains(s1.runningQueue, t) THEN s1
       ELSE LET s2 == [s1 EXCEPT !.entry[t].releaseTimeoutId = FALSE]
                s3 == IF reason \in {"timeoutReached", "forced"}
                        THEN Emit([s2 EXCEPT !.entry[t].releaseReason = reason,
                                             !.expiredQueue = s2.expiredQueue \cup {t}],
                                  t, "task-released-before-finished")
                        ELSE Unreference(Emit(s2, t, "task-finished"), t)
            IN dispatchNextTask(s3)

\* the release function built by buildReleaseFunction(taskEntry);
\* reason is "none" (the call in finally), "timeoutReached" or "forced"
releaseFunction(s, t, reason) ==
    LET s1 == IF t \in s.expiredQueue
                THEN Unreference(Emit([s EXCEPT !.expiredQueue = s.expiredQueue \ {t}],
                                      t, "task-finished"), t)
                ELSE s
    IN IF ~Contains(s1.runningQueue, t) THEN s1
       ELSE LET s2 == [s1 EXCEPT !.entry[t].releaseTimeoutId = FALSE,
                                 !.runningQueue = Remove(s1.runningQueue, t)]
                s3 == IF reason \in {"timeoutReached", "forced"}
                        THEN Emit([s2 EXCEPT !.entry[t].releaseReason = reason,
                                             !.expiredQueue = s2.expiredQueue \cup {t}],
                                  t, "task-released-before-finished")
                        ELSE Unreference(Emit(s2, t, "task-finished"), t)
            IN dispatchNextTask(s3)

\* acquire() without its call of dispatchNextTask
acquire_NoDispatch(s, t, opts, args) ==
    LET waitingTimeout == Coalesce(opts.waitingTimeout, s.options.waitingTimeout)
    IN [s EXCEPT !.entry[t] = [NoEntry EXCEPT !.options = opts, !.args = args,
                                              !.waitingTimeoutId = (waitingTimeout > 0),
                                              !.waitingTimerDelay =
                                                  IF waitingTimeout > 0 THEN waitingTimeout
                                                  ELSE 0],
                 !.waitingQueue = Append(s.waitingQueue, t),
                 !.submitOrder = Append(s.submitOrder, t),
                 !.pc[t] = "acquiring"]

\* acquire() putting the entry at the front of the queue (unshift for push)
acquire_Unshift(s, t, opts, args) ==
    LET waitingTimeout == Coalesce(opts.waitingTimeout, s.options.waitingTimeout)
        s1 == [s EXCEPT !.entry[t] = [NoEntry EXCEPT !.options = opts, !.args = args,
                                                     !.waitingTimeoutId = (waitingTimeout > 0),
                                              !.waitingTimerDelay =
                                                  IF waitingTimeout > 0 THEN waitingTimeout
                                                  ELSE 0],
                        !.waitingQueue = <<t>> \o s.waitingQueue,
                        !.submitOrder = Append(s.submitOrder, t),
                        !.pc[t] = "acquiring"]
    IN dispatchNextTask(s1)

\* acquire() arming the waiting timer with the controller's waitingTimeout only
acquire_ControllerTimeout(s, t, opts, args) ==
    LET waitingTimeout == s.options.waitingTimeout
        s1 == [s EXCEPT !.entry[t] = [NoEntry EXCEPT !.options = opts, !.args = args,
                                              !.waitingTimeoutId = (waitingTimeout > 0),
                                              !.waitingTimerDelay =
                                                  IF waitingTimeout > 0 THEN waitingTimeout
                                                  ELSE 0],
                        !.waitingQueue = Append(s.waitingQueue, t),
                        !.submitOrder = Append(s.submitOrder, t),
                        !.pc[t] = "acquiring"]
    IN dispatchNextTask(s1)

\* acquire(options, ...args): the synchronous body of the promise executor
acquire(s, t, opts, args) ==
    LET waitingTimeout == Coalesce(opts.waitingTimeout, s.options.waitingTimeout)
        s1 == [s EXCEPT !.entry[t] = [NoEntry EXCEPT !.options = opts, !.args = args,
                                                     !.waitingTimeoutId = (waitingTimeout > 0),
                                              !.waitingTimerDelay =
                                                  IF waitingTimeout > 0 THEN waitingTimeout
                                                  ELSE 0],
                        !.waitingQueue = Append(s.waitingQueue, t),
                        !.submitOrder = Append(s.submitOrder, t),
                        !.pc[t] = "acquiring"]
    IN dispatchNextTask(s1)

\* the loop of releaseRunningTasks() passing no reason to the release function
RECURSIVE releaseAll_NoReason(_, _)
releaseAll_NoReason(s, copy) ==
    IF copy = <<>> THEN s
    ELSE releaseAll_NoReason(releaseFunction(s, Head(copy), "none"), Tail(copy))

\* the loop of releaseRunningTasks() over the copy of the map
RECURSIVE releaseAll(_, _)
releaseAll(s, copy) ==
    IF copy = <<>> THEN s
    ELSE releaseAll(releaseFunction(s, Head(copy), "forced"), Tail(copy))

\* the loop of flushPendingTasks() without its clearTimeout
RECURSIVE discardAll_KeepTimer(_, _)
discardAll_KeepTimer(s, copy) ==
    IF copy = <<>> THEN s
    ELSE LET t == Head(copy)
         IN discardAll_KeepTimer(
                Unreference(Emit([s EXCEPT !.entry[t].discardReason = "forced"],
                                 t, "task-discarded"), t),
                Tail(copy))

\* the loop of flushPendingTasks() over the copy of the waiting queue
RECURSIVE discardAll(_, _)
discardAll(s, copy) ==
    IF copy = <<>> THEN s
    ELSE LET t == Head(copy)
         IN discardAll(Unreference(Emit([s EXCEPT !.entry[t].discardReason = "forced",
                                                  !.entry[t].waitingTimeoutId = FALSE],
                                        t, "task-discarded"), t),
                       Tail(copy))

\* new TaskController(options)
TaskConstructor(rawConcurrency, qt, rt, wt) ==
    /\ options = [concurrency |-> sanitizeOptions(rawConcurrency), queueType |-> qt,
                  releaseTimeout |-> rt, waitingTimeout |-> wt]
    /\ aborted = [g \in Signals |-> FALSE]
    /\ waitingQueue = <<>>
    /\ runningQueue = <<>>
    /\ expiredQueue = {}
    /\ entry = [t \in Tasks |-> NoEntry]
    /\ pc = [t \in Tasks |-> "idle"]
    /\ log = [t \in Tasks |-> <<>>]
    /\ startOrder = <<>>
    /\ submitOrder = <<>>
    /\ handlerLog = [t \in Tasks |-> <<>>]
    /\ errorListener = FALSE
    /\ handlerView = NoHandlerView

\* ------------------------------------------------- LockController operations
\* acquire()
Acquire(r) ==
    /\ req[r] = "idle"
    /\ LET l1 == [LockState EXCEPT !.waitingQueue = Append(lockWaitingQueue, r),
                                   !.req[r] = "waiting"]
       IN SetLockState(dispatchNextLock(l1))
    /\ UNCHANGED <<taskVars, stepVars>>

\* tryAcquire() without its concurrency check
TryAcquire_NoLimit(r) ==
    /\ req[r] = "idle"
    /\ IF Len(lockWaitingQueue) > 0
         THEN SetLockState([LockState EXCEPT !.req[r] = "refused"])
       ELSE SetLockState([LockStart(LockState, r) EXCEPT !.req[r] = "holding"])
    /\ UNCHANGED <<taskVars, stepVars>>

\* tryAcquire()
TryAcquire(r) ==
    /\ req[r] = "idle"
    /\ IF Len(lockWaitingQueue) > 0
         THEN SetLockState([LockState EXCEPT !.req[r] = "refused"])
       ELSE IF Len(acquiredQueue) >= lockOptions.concurrency
         THEN SetLockState([LockState EXCEPT !.req[r] = "refused"])
       ELSE SetLockState([LockStart(LockState, r) EXCEPT !.req[r] = "holding"])
    /\ UNCHANGED <<taskVars, stepVars>>

\* a requester calls the release function it was given (once more)
Release(r) ==
    /\ req[r] = "holding"
    /\ calls[r] < MaxReleaseCalls
    /\ SetLockState([LockReleaseFunction(LockState, r, FALSE) EXCEPT !.calls[r] = calls[r] + 1])
    /\ UNCHANGED <<taskVars, stepVars>>

\* the release timer set by buildReleaseFunction fires: the handler is
\* called, then the release function
LockReleaseTimeout(r) ==
    /\ lockTimeoutId[r]
    /\ LET l1 == [LockState EXCEPT !.timeoutId[r] = FALSE,
                                   !.handlerLog[r] = Append(lockHandlerLog[r],
                                       [events |-> Len(lockLog[r]), threw |-> FALSE])]
       IN SetLockState(LockReleaseFunction(l1, r, TRUE))
    /\ UNCHANGED <<taskVars, stepVars>>

\* the release timer fires and the handler throws: the catch block emits
\* 'error', which throws in its turn when no listener is registered, and
\* the callback then ends before it calls the release function
LockReleaseTimeoutHandlerThrows(r) ==
    /\ lockTimeoutId[r]
    /\ LET l1 == [LockState EXCEPT !.timeoutId[r] = FALSE,
                                   !.handlerLog[r] = Append(lockHandlerLog[r],
                                       [events |-> Len(lockLog[r]), threw |-> TRUE])]
           l2 == [l1 EXCEPT !.log[r] = Append(l1.log[r],
                                              "error:release-timeout-handler-failure")]
       IN IF lockErrorListener THEN SetLockState(LockReleaseFunction(l2, r, TRUE))
          ELSE SetLockState(l1)
    /\ UNCHANGED <<taskVars, stepVars>>

\* on("error", listener) of the LockController
LockOnError ==
    /\ ~lockErrorListener
    /\ lockErrorListener' = TRUE
    /\ UNCHANGED <<lockOptions, lockWaitingQueue, acquiredQueue, lockTimeoutId, req, calls,
                   lockLog, lockHandlerLog>>
    /\ UNCHANGED <<taskVars, stepVars>>

\* releaseAcquiredLocks()
ReleaseAcquiredLocks ==
    /\ IF Len(acquiredQueue) = 0 THEN UNCHANGED lockVars
       ELSE SetLockState(LockReleaseAll(LockState, acquiredQueue))
    /\ UNCHANGED <<taskVars, stepVars>>

\* the holder of a permit that was released is done with it; its number
\* serves for a later call of acquire
LockRecycle(r) ==
    /\ req[r] = "holding"
    /\ ~Contains(acquiredQueue, r)
    /\ req' = [req EXCEPT ![r] = "idle"]
    /\ calls' = [calls EXCEPT ![r] = 0]
    /\ lockLog' = [lockLog EXCEPT ![r] = <<>>]
    /\ lockHandlerLog' = [lockHandlerLog EXCEPT ![r] = <<>>]
    /\ UNCHANGED <<lockOptions, lockWaitingQueue, acquiredQueue, lockTimeoutId,
                   lockErrorListener>>
    /\ UNCHANGED <<taskVars, stepVars>>

\* ------------------------------------------------- TaskController operations
\* callers are numbered in the order in which they call run or tryRun
NextCaller(t) == pc[t] = "idle" /\ \A u \in Tasks : u < t => pc[u] # "idle"

\* timers are macrotasks: none fires while a resolved promise's continuation
\* (the call of the task after `await this.acquire`) is still queued
NoMicrotaskPending == \A t \in Tasks : pc[t] # "resolved"

\* the per-task signal a caller passes may be aborted already
PassSignal(s, t, opts, pre) ==
    IF opts.signal = {} THEN s ELSE [s EXCEPT !.aborted[t] = pre]

\* run(task, ...args) / runWithOptions(task, options, ...args): enqueueAndRun
\* up to its first await
Run(t, opts, pre) ==
    /\ NextCaller(t)
    /\ opts.signal = {} => ~pre
    /\ SetTaskState(acquire(PassSignal(TaskState, t, opts, pre), t, opts,
                            Spread(Arguments(CallerArgs(t)))))
    /\ UNCHANGED <<lockVars, stepVars>>

\* The rest parameter `...args` of tryRunWithOptions, which the thunk
\* captures: a caller with options calls tryRunWithOptions(task, options,
\* ...args), a caller without calls tryRun(task, ...args), which calls
\* tryRunWithOptions(task, undefined, args)
TryRunArgs(t, opts) ==
    IF opts = NoOptions THEN AsOneArgument(Arguments(CallerArgs(t)))
    ELSE Spread(Arguments(CallerArgs(t)))

\* tryRunWithOptions without its concurrency check
TryRun_NoLimit(t, opts, pre) ==
    /\ NextCaller(t)
    /\ opts.signal = {} => ~pre
    /\ IF Len(waitingQueue) > 0
         THEN SetTaskState([TaskState EXCEPT !.pc[t] = "unavailable"])
       ELSE SetTaskState([PassSignal(TaskState, t, opts, pre) EXCEPT
                              !.pc[t] = "thunk", !.entry[t].options = opts,
                              !.entry[t].args = TryRunArgs(t, opts)])
    /\ UNCHANGED <<lockVars, stepVars>>

\* tryRun(task, ...args) / tryRunWithOptions(task, options, ...args)
TryRun(t, opts, pre) ==
    /\ NextCaller(t)
    /\ opts.signal = {} => ~pre
    /\ IF Len(waitingQueue) > 0
         THEN SetTaskState([TaskState EXCEPT !.pc[t] = "unavailable"])
       ELSE IF Len(runningQueue) >= options.concurrency
         THEN SetTaskState([TaskState EXCEPT !.pc[t] = "unavailable"])
       ELSE SetTaskState([PassSignal(TaskState, t, opts, pre) EXCEPT
                              !.pc[t] = "thunk", !.entry[t].options = opts,
                              !.entry[t].args = TryRunArgs(t, opts)])
    /\ UNCHANGED <<lockVars, stepVars>>

\* the thunk starting the task at once, without acquire()
RunThunk_StartNow(t) ==
    /\ pc[t] = "thunk"
    /\ SetTaskState(start([TaskState EXCEPT !.pc[t] = "resolved",
                                            !.submitOrder = Append(submitOrder, t)], t))
    /\ UNCHANGED <<lockVars, stepVars>>

\* the thunk run() returned by tryRun is called: enqueueAndRun
RunThunk(t) ==
    /\ pc[t] = "thunk"
    /\ SetTaskState(acquire(TaskState, t, entry[t].options,
                            AsOneArgument(entry[t].args)))
    /\ UNCHANGED <<lockVars, stepVars>>

\* the argument list of the call task(...taskEntry.args)
CalledWith(t) == Spread(entry[t].args)

\* enqueueAndRun continues after `await this.acquire`: task(...taskEntry.args);
\* nothing reads taskEntry.args after this call, it is dropped from the state
Invoke(t) ==
    /\ pc[t] = "resolved"
    /\ SetTaskState(Emit([TaskState EXCEPT !.pc[t] = "executing",
                                           !.entry[t].args = NoArgs],
                          t, "invoked"))
    /\ UNCHANGED <<lockVars, stepVars>>

\* the task returns a value: enqueueAndRun returns fulfilled, finally release()
Return(t) ==
    /\ pc[t] = "executing"
    /\ SetTaskState(releaseFunction([TaskState EXCEPT !.pc[t] = "fulfilled"], t, "none"))
    /\ UNCHANGED <<lockVars, stepVars>>

\* the task throws, with release() called before task-failure is emitted
Throw_ReleaseFirst(t) ==
    /\ pc[t] = "executing"
    /\ SetTaskState(CallHandler(
           Emit(releaseFunction([TaskState EXCEPT !.pc[t] = "rejected"], t, "none"),
                t, "task-failure"),
           t, "errorHandler"))
    /\ UNCHANGED <<lockVars, stepVars>>

\* the task throws: task-failure, errorHandler, rejected, finally release()
Throw(t) ==
    /\ pc[t] = "executing"
    /\ SetTaskState(releaseFunction(
           CallHandler(Emit([TaskState EXCEPT !.pc[t] = "rejected"], t, "task-failure"),
                       t, "errorHandler"), t, "none"))
    /\ UNCHANGED <<lockVars, stepVars>>

\* the task throws and the errorHandler throws too: the 'error' event is
\* emitted, which throws in its turn when it has no listener (EventEmitter),
\* so that the promise of run rejects; finally release() in both cases
ThrowErrorHandlerThrows(t) ==
    /\ pc[t] = "executing"
    /\ LET s1 == CallHandlerThrows(Emit(TaskState, t, "task-failure"), t, "errorHandler")
           s2 == IF errorListener
                   THEN Emit([s1 EXCEPT !.pc[t] = "rejected"], t, "error:error-handler-failure")
                   ELSE [s1 EXCEPT !.pc[t] = "threw"]
       IN SetTaskState(releaseFunction(s2, t, "none"))
    /\ UNCHANGED <<lockVars, stepVars>>

\* on('error', listener)
OnError ==
    /\ ~errorListener
    /\ errorListener' = TRUE
    /\ handlerView' = NoHandlerView
    /\ UNCHANGED <<options, aborted, waitingQueue, runningQueue, expiredQueue, entry, pc,
                   log, startOrder, submitOrder, handlerLog>>
    /\ UNCHANGED <<lockVars, stepVars>>

\* the waiting timer discarding the entry without taking it out of the queue
WaitingTimeout_KeepQueued(t) ==
    /\ entry[t].waitingTimeoutId
    /\ NoMicrotaskPending
    /\ LET s1 == [TaskState EXCEPT !.entry[t].waitingTimeoutId = FALSE,
                                   !.entry[t].discardReason = "timeoutReached"]
       IN SetTaskState(Unreference(
              CallHandler(Emit(s1, t, "task-discarded"), t, "waitingTimeoutHandler"), t))
    /\ UNCHANGED <<lockVars, stepVars>>

\* the waiting timer set in acquire() fires
WaitingTimeout(t) ==
    /\ entry[t].waitingTimeoutId
    /\ NoMicrotaskPending
    /\ LET s1 == [TaskState EXCEPT !.entry[t].waitingTimeoutId = FALSE,
                                   !.waitingQueue = Remove(waitingQueue, t),
                                   !.entry[t].discardReason = "timeoutReached"]
       IN SetTaskState(Unreference(
              CallHandler(Emit(s1, t, "task-discarded"), t, "waitingTimeoutHandler"), t))
    /\ UNCHANGED <<lockVars, stepVars>>

\* the release timer firing with the reason of a normal release
ReleaseTimeout_AsFinished(t) ==
    /\ entry[t].releaseTimeoutId
    /\ NoMicrotaskPending
    /\ SetTaskState(CallReleaseTimeoutHandler(
           releaseFunction([TaskState EXCEPT !.entry[t].releaseTimeoutId = FALSE],
                           t, "none"),
           t))
    /\ UNCHANGED <<lockVars, stepVars>>

\* the release timer's callback calling the handler before it frees the slot
ReleaseTimeout_HandlerFirst(t) ==
    /\ entry[t].releaseTimeoutId
    /\ NoMicrotaskPending
    /\ SetTaskState(releaseFunction(
           CallReleaseTimeoutHandler(
               [TaskState EXCEPT !.entry[t].releaseTimeoutId = FALSE], t),
           t, "timeoutReached"))
    /\ UNCHANGED <<lockVars, stepVars>>

\* the release timer set in buildReleaseFunction() fires
ReleaseTimeout(t) ==
    /\ entry[t].releaseTimeoutId
    /\ NoMicrotaskPending
    /\ SetTaskState(CallReleaseTimeoutHandler(
           releaseFunction([TaskState EXCEPT !.entry[t].releaseTimeoutId = FALSE],
                           t, "timeoutReached"),
           t))
    /\ UNCHANGED <<lockVars, stepVars>>

\* the waiting timer fires and waitingTimeoutHandler throws: the catch block
\* emits 'error', which throws in its turn when no listener is registered
\* and then ends the callback with an uncaught exception
WaitingTimeoutHandlerThrows(t) ==
    /\ entry[t].waitingTimeoutId
    /\ NoMicrotaskPending
    /\ LET s1 == [TaskState EXCEPT !.entry[t].waitingTimeoutId = FALSE,
                                   !.waitingQueue = Remove(waitingQueue, t),
                                   !.entry[t].discardReason = "timeoutReached"]
           s2 == CallHandlerThrows(Emit(s1, t, "task-discarded"), t, "waitingTimeoutHandler")
       IN SetTaskState(Unreference(
              IF errorListener THEN Emit(s2, t, "error:waiting-timeout-handler-failure")
              ELSE s2, t))
    /\ UNCHANGED <<lockVars, stepVars>>

\* the release timer fires and releaseTimeoutHandler throws, in the same way
ReleaseTimeoutHandlerThrows(t) ==
    /\ entry[t].releaseTimeoutId
    /\ NoMicrotaskPending
    /\ LET s1 == CallHandlerThrows(
                    releaseFunction([TaskState EXCEPT !.entry[t].releaseTimeoutId = FALSE],
                                    t, "timeoutReached"),
                    t, "releaseTimeoutHandler")
       IN SetTaskState(IF errorListener
                         THEN Emit(s1, t, "error:release-timeout-handler-failure")
                         ELSE s1)
    /\ UNCHANGED <<lockVars, stepVars>>

\* releaseRunningTasks()
ReleaseRunningTasks ==
    /\ IF Len(runningQueue) = 0 THEN UNCHANGED taskVars
       ELSE SetTaskState(releaseAll(TaskState, runningQueue))
    /\ UNCHANGED <<lockVars, stepVars>>

\* flushPendingTasks()
FlushPendingTasks ==
    /\ IF Len(waitingQueue) = 0 THEN UNCHANGED taskVars
       ELSE SetTaskState(discardAll([TaskState EXCEPT !.waitingQueue = <<>>], waitingQueue))
    /\ UNCHANGED <<lockVars, stepVars>>

\* arguments of changeConcurrentLimit: invalid ones of each kind, and 1..MaxLimit
RawLimits ==
    [kind : {"undefined", "null", "NaN"}, tenths : {0}]
      \cup [kind : {"number"}, tenths : {-10, 0, 15} \cup {10 * n : n \in 1..MaxLimit}]

\* arguments of changeConcurrentLimit up to MaxRaisedLimit
WideLimits ==
    RawLimits \cup [kind : {"number"}, tenths : {10 * n : n \in 1..MaxRaisedLimit}]

\* changeConcurrentLimit without its check of a limit below 1
ChangeConcurrentLimit_NoLowerBound(raw) ==
    /\ IF raw.kind \in {"null", "undefined"} THEN UNCHANGED taskVars
       ELSE IF raw.kind # "number" \/ ~NumberIsInteger(raw.tenths) THEN UNCHANGED taskVars
       ELSE LET newConcurrentLimit == raw.tenths \div 10
                increased == newConcurrentLimit > options.concurrency
                s1 == [TaskState EXCEPT !.options.concurrency = newConcurrentLimit]
            IN SetTaskState(IF increased THEN dispatchNextTask(s1) ELSE s1)
    /\ UNCHANGED <<lockVars, stepVars>>

\* changeConcurrentLimit releasing the running tasks above a lowered limit
ChangeConcurrentLimit_Evict(raw) ==
    /\ IF raw.kind \in {"null", "undefined"} THEN UNCHANGED taskVars
       ELSE IF raw.kind # "number" \/ ~NumberIsInteger(raw.tenths) THEN UNCHANGED taskVars
       ELSE IF raw.tenths \div 10 < 1 THEN UNCHANGED taskVars
       ELSE LET newConcurrentLimit == raw.tenths \div 10
                increased == newConcurrentLimit > options.concurrency
                s1 == [TaskState EXCEPT !.options.concurrency = newConcurrentLimit]
            IN SetTaskState(IF increased THEN dispatchNextTask(s1)
                            ELSE releaseAll(s1, SubSeq(runningQueue, newConcurrentLimit + 1,
                                                       Len(runningQueue))))
    /\ UNCHANGED <<lockVars, stepVars>>

\* changeConcurrentLimit(newConcurrentLimit)
ChangeConcurrentLimit(raw) ==
    /\ IF raw.kind \in {"null", "undefined"} THEN UNCHANGED taskVars
       ELSE IF raw.kind # "number" \/ ~NumberIsInteger(raw.tenths) THEN UNCHANGED taskVars
       ELSE IF raw.tenths \div 10 < 1 THEN UNCHANGED taskVars
       ELSE LET newConcurrentLimit == raw.tenths \div 10
                increased == newConcurrentLimit > options.concurrency
                s1 == [TaskState EXCEPT !.options.concurrency = newConcurrentLimit]
            IN SetTaskState(IF increased THEN dispatchNextTask(s1) ELSE s1)
    /\ UNCHANGED <<lockVars, stepVars>>

\* AbortController.abort() on the controller's signal or on a waiting task's own
Abort(g) ==
    /\ ~aborted[g]
    /\ g # ControllerSignal => pc[g] = "acquiring" /\ entry[g].options.signal = {g}
                                  /\ Contains(waitingQueue, g)
    /\ aborted' = [aborted EXCEPT ![g] = TRUE]
    /\ handlerView' = NoHandlerView
    /\ UNCHANGED <<options, waitingQueue, runningQueue, expiredQueue, entry, pc, log,
                   startOrder, submitOrder, handlerLog, errorListener>>
    /\ UNCHANGED <<lockVars, stepVars>>

\* the caller of a task that was discarded, or has settled and emitted
\* task-finished, is done with it; its number serves for a later call of run
Recycle(t) ==
    /\ \/ entry[t].discardReason # "none"
       \/ pc[t] \in {"fulfilled", "rejected"} /\ Contains(log[t], "task-finished")
    /\ entry' = [entry EXCEPT ![t] = NoEntry]
    /\ pc' = [pc EXCEPT ![t] = "idle"]
    /\ log' = [log EXCEPT ![t] = <<>>]
    /\ aborted' = [aborted EXCEPT ![t] = FALSE]
    /\ startOrder' = Remove(startOrder, t)
    /\ submitOrder' = Remove(submitOrder, t)
    /\ handlerLog' = [handlerLog EXCEPT ![t] = <<>>]
    /\ handlerView' = NoHandlerView
    /\ UNCHANGED <<options, waitingQueue, runningQueue, expiredQueue, errorListener>>
    /\ UNCHANGED <<lockVars, stepVars>>

TaskNext ==
    \/ \E t \in Tasks : Run(t, NoOptions, FALSE)
    \/ \E t \in Tasks : TryRun(t, NoOptions, FALSE)
    \/ \E t \in Tasks : RunThunk(t)
    \/ \E t \in Tasks : Invoke(t)
    \/ \E t \in Tasks : Return(t)
    \/ \E t \in Tasks : Throw(t)
    \/ \E t \in Tasks : WaitingTimeout(t)
    \/ \E t \in Tasks : ReleaseTimeout(t)
    \/ ReleaseRunningTasks
    \/ FlushPendingTasks
    \/ \E raw \in RawLimits : ChangeConcurrentLimit(raw)
    \/ \E g \in Signals : Abort(g)

\* the operations with per-task signals (runWithOptions), without tryRun
SignalNext ==
    \/ \E t \in Tasks, pre \in BOOLEAN : \E opts \in SignalChoices(t) : Run(t, opts, pre)
    \/ \E t \in Tasks : Invoke(t)
    \/ \E t \in Tasks : Return(t)
    \/ \E t \in Tasks : Throw(t)
    \/ \E t \in Tasks : WaitingTimeout(t)
    \/ \E t \in Tasks : ReleaseTimeout(t)
    \/ ReleaseRunningTasks
    \/ FlushPendingTasks
    \/ \E raw \in RawLimits : ChangeConcurrentLimit(raw)
    \/ \E g \in Signals : Abort(g)

\* the operations of a program that keeps submitting tasks for ever and
\* flushes the queue now and then
LiveNext ==
    \/ \E t \in Tasks : Run(t, NoOptions, FALSE)
    \/ \E t \in Tasks : Invoke(t)
    \/ \E t \in Tasks : Return(t)
    \/ \E t \in Tasks : Throw(t)
    \/ \E t \in Tasks : WaitingTimeout(t)
    \/ \E t \in Tasks : ReleaseTimeout(t)
    \/ FlushPendingTasks
    \/ \E t \in Tasks : Recycle(t)

\* the operations with handlers that throw and with or without a listener of
\* the 'error' event
HandlersNext ==
    \/ \E t \in Tasks : Run(t, NoOptions, FALSE)
    \/ \E t \in Tasks : Invoke(t)
    \/ \E t \in Tasks : Return(t)
    \/ \E t \in Tasks : Throw(t)
    \/ \E t \in Tasks : ThrowErrorHandlerThrows(t)
    \/ \E t \in Tasks : WaitingTimeout(t)
    \/ \E t \in Tasks : WaitingTimeoutHandlerThrows(t)
    \/ \E t \in Tasks : ReleaseTimeout(t)
    \/ \E t \in Tasks : ReleaseTimeoutHandlerThrows(t)
    \/ ReleaseRunningTasks
    \/ FlushPendingTasks
    \/ OnError

\* the operations of a program that changes the limit while tasks run and wait
LimitNext ==
    \/ \E t \in Tasks : Run(t, NoOptions, FALSE)
    \/ \E t \in Tasks : Invoke(t)
    \/ \E t \in Tasks : Return(t)
    \/ \E t \in Tasks : Throw(t)
    \/ ReleaseRunningTasks
    \/ FlushPendingTasks
    \/ \E raw \in WideLimits : ChangeConcurrentLimit(raw)
    \/ Abort(ControllerSignal)

LockNext ==
    \/ \E r \in Requesters : Acquire(r)
    \/ \E r \in Requesters : TryAcquire(r)
    \/ \E r \in Requesters : Release(r)
    \/ \E r \in Requesters : LockReleaseTimeout(r)
    \/ ReleaseAcquiredLocks

\* the operations of a lock whose releaseTimeoutHandler may throw, with or
\* without a listener of the 'error' event
LockHandlersNext ==
    \/ \E r \in Requesters : Acquire(r)
    \/ \E r \in Requesters : TryAcquire(r)
    \/ \E r \in Requesters : Release(r)
    \/ \E r \in Requesters : LockReleaseTimeout(r)
    \/ \E r \in Requesters : LockReleaseTimeoutHandlerThrows(r)
    \/ ReleaseAcquiredLocks
    \/ LockOnError

\* ------------------------------------------ MultiStepController operations
\* releaseAll()
ReleaseAll ==
    /\ stepLocks' = [i \in DOMAIN stepLocks |-> releaseAcquiredLocks(stepLocks[i])]
    /\ UNCHANGED <<lockVars, taskVars>>

\* a task calls acquire() of the lock of step i
StepAcquire(i, r) ==
    /\ stepLocks[i].req[r] = "idle"
    /\ stepLocks' = [stepLocks EXCEPT ![i] =
           dispatchNextLock([@ EXCEPT !.waitingQueue = Append(@, r), !.req[r] = "waiting"])]
    /\ UNCHANGED <<lockVars, taskVars>>

\* a task calls tryAcquire() of the lock of step i
StepTryAcquire(i, r) ==
    /\ stepLocks[i].req[r] = "idle"
    /\ LET l == stepLocks[i] IN
       stepLocks' = [stepLocks EXCEPT ![i] =
           IF Len(l.waitingQueue) > 0 THEN [l EXCEPT !.req[r] = "refused"]
           ELSE IF Len(l.acquiredQueue) >= l.options.concurrency
             THEN [l EXCEPT !.req[r] = "refused"]
           ELSE [LockStart(l, r) EXCEPT !.req[r] = "holding"]]
    /\ UNCHANGED <<lockVars, taskVars>>

\* a task calls the release function of its permit of step i (once more)
StepRelease(i, r) ==
    /\ stepLocks[i].req[r] = "holding"
    /\ stepLocks[i].calls[r] < MaxReleaseCalls
    /\ stepLocks' = [stepLocks EXCEPT ![i] =
           [LockReleaseFunction(@, r, FALSE) EXCEPT !.calls[r] = @ + 1]]
    /\ UNCHANGED <<lockVars, taskVars>>

\* the operations of the tasks of a MultiStepController on its step locks,
\* and releaseAll
StepNext ==
    \/ \E i \in DOMAIN stepLocks, r \in Requesters : StepAcquire(i, r)
    \/ \E i \in DOMAIN stepLocks, r \in Requesters : StepTryAcquire(i, r)
    \/ \E i \in DOMAIN stepLocks, r \in Requesters : StepRelease(i, r)
    \/ ReleaseAll

vars == <<lockVars, taskVars, stepVars>>

\* the constructor argument that leaves concurrency at its default
NoConcurrency == [kind |-> "undefined", tenths |-> 0]

\* new LockController(options) with any options (and an unused TaskController)
LockInit ==
    \E raw \in RawConcurrency, qt \in QueueTypes, rt \in Timeouts :
        /\ LockConstructor(raw, qt, rt)
        /\ TaskConstructor(NoConcurrency, "FIFO", 0, 0)
        /\ NoStepController

\* new TaskController(options) with any options (and an unused LockController)
TaskInit ==
    \E raw \in RawConcurrency, qt \in QueueTypes, rt \in Timeouts, wt \in Timeouts :
        /\ TaskConstructor(raw, qt, rt, wt)
        /\ LockConstructor(NoConcurrency, "FIFO", 0)
        /\ NoStepController

\* new MultiStepController({ stepConcurrencies }) with NumSteps steps (and an
\* unused LockController and TaskController)
StepInit ==
    \E stepConcurrencies \in [1..NumSteps -> StepRawConcurrency] :
        /\ StepConstructor(stepConcurrencies)
        /\ LockConstructor(NoConcurrency, "FIFO", 0)
        /\ TaskConstructor(NoConcurrency, "FIFO", 0, 0)

\* a MultiStepController whose tasks use the step locks in any order
SpecSteps == StepInit /\ [][StepNext]_vars

\* a LockController under every use
SpecLock == LockInit /\ [][LockNext]_vars

\* a LockController whose releaseTimeoutHandler may throw
SpecLockHandlers == LockInit /\ [][LockHandlersNext]_vars

\* a TaskController under every use of run and tryRun
SpecTask == TaskInit /\ [][TaskNext]_vars

\* a TaskController whose callers pass their own abort signals
SpecSignal == TaskInit /\ [][SignalNext]_vars

\* a TaskController whose handlers may throw
SpecHandlers == TaskInit /\ [][HandlersNext]_vars

\* the operations of a program whose callers pass per-task timeouts
OverridesNext ==
    \/ \E t \in Tasks, opts \in TimeoutChoices : Run(t, opts, FALSE)
    \/ \E t \in Tasks : Invoke(t)
    \/ \E t \in Tasks : Return(t)
    \/ \E t \in Tasks : WaitingTimeout(t)
    \/ \E t \in Tasks : ReleaseTimeout(t)

\* new TaskController({ concurrency: 1, releaseTimeout, waitingTimeout })
OverridesInit ==
    \E rt \in Timeouts, wt \in Timeouts :
        /\ TaskConstructor([kind |-> "number", tenths |-> 10], "FIFO", rt, wt)
        /\ LockConstructor(NoConcurrency, "FIFO", 0)
        /\ NoStepController

\* a TaskController whose callers pass per-task timeouts
SpecOverrides == OverridesInit /\ [][OverridesNext]_vars

\* new TaskController({ concurrency: 1, queueType }) without timeouts
LimitInit ==
    \E qt \in QueueTypes :
        /\ TaskConstructor([kind |-> "number", tenths |-> 10], qt, 0, 0)
        /\ LockConstructor(NoConcurrency, "FIFO", 0)
        /\ NoStepController

\* a TaskController whose limit is changed, by more than one too
SpecLimit == LimitInit /\ [][LimitNext]_vars

\* new TaskController(options) with options that give a concurrency of at least 1
LiveInit ==
    \E raw \in RawConcurrency, qt \in QueueTypes, rt \in Timeouts, wt \in Timeouts :
        /\ sanitizeOptions(raw) >= 1
        /\ TaskConstructor(raw, qt, rt, wt)
        /\ LockConstructor(NoConcurrency, "FIFO", 0)
        /\ NoStepController

\* the event loop runs the continuation of a resolved promise and fires the
\* timers that are due whenever no continuation is queued; every started
\* callable returns or throws
Fairness ==
    \A t \in Tasks :
        /\ WF_vars(Invoke(t))
        /\ WF_vars(Return(t) \/ Throw(t))
        /\ SF_vars(WaitingTimeout(t))
        /\ SF_vars(ReleaseTimeout(t))

\* a TaskController whose callers never stop submitting, under a fair event loop
SpecLive == LiveInit /\ [][LiveNext]_vars /\ Fairness

\* the operations of a program whose requesters never stop calling acquire
LockLiveNext ==
    \/ \E r \in Requesters : Acquire(r)
    \/ \E r \in Requesters : Release(r)
    \/ \E r \in Requesters : LockReleaseTimeout(r)
    \/ ReleaseAcquiredLocks
    \/ \E r \in Requesters : LockRecycle(r)

\* new LockController({ concurrency, queueType: "FIFO", releaseTimeout }) with
\* a concurrency of at least 1
LockLiveInit ==
    \E raw \in RawConcurrency, rt \in Timeouts :
        /\ sanitizeOptions(raw) >= 1
        /\ LockConstructor(raw, "FIFO", rt)
        /\ TaskConstructor(NoConcurrency, "FIFO", 0, 0)
        /\ NoStepController

\* every holder of a permit calls its release function
LockFairness == \A r \in Requesters : WF_vars(Release(r))

\* a FIFO LockController whose permits are all released in the end
SpecLockLive == LockLiveInit /\ [][LockLiveNext]_vars /\ LockFairness

Init == TaskInit
Next == TaskNext
Spec == SpecTask

\* =================================================================== claims
\* number of occurrences of an event in a log
Count(seq, e) == Len(SelectSeq(seq, LAMBDA x : x = e))

\* the signal that getNextTaskToRun reads for task t
EffectiveSignal(t) == Coalesce(entry[t].options.signal, ControllerSignal)

C2_AcquiredWithinConcurrency == Len(acquiredQueue) <= lockOptions.concurrency

\* the same for every concurrency that is not negative
C2_ForNonNegativeConcurrency ==
    lockOptions.concurrency >= 0 => Len(acquiredQueue) <= lockOptions.concurrency

\* ----------------------------------------------------------------------- C3
\* C3: the waiting queue is non-empty only if the number of acquired
\* permits equals the concurrency C.
C3_WaitOnlyWhenFull ==
    lockWaitingQueue # <<>> => Len(acquiredQueue) = lockOptions.concurrency

\* the same for every concurrency that is not negative
C3_ForNonNegativeConcurrency ==
    lockOptions.concurrency >= 0 => C3_WaitOnlyWhenFull

\* ----------------------------------------------------------------------- C4
\* C4: tryAcquire grants (a release function, exactly one more permit, the
\* queue untouched) iff the acquired count is below C and nobody waits;
\* otherwise it is refused and the lock is left as it was.
C4_TryAcquire ==
    [][\A r \in Requesters : TryAcquire(r) =>
          LET free == Len(acquiredQueue) < lockOptions.concurrency
                        /\ Len(lockWaitingQueue) = 0
          IN /\ (req'[r] = "holding") <=> free
             /\ (req'[r] = "refused") <=> ~free
             /\ free => /\ acquiredQueue' = Append(acquiredQueue, r)
                        /\ lockWaitingQueue' = lockWaitingQueue
             /\ ~free => UNCHANGED <<acquiredQueue, lockWaitingQueue, lockTimeoutId,
                                     lockLog, calls>>
      ]_vars

\* tryAcquire was refused because of a waiter, and granted to another requester
C4_Witness ==
    \E r, g, w \in Requesters :
        /\ req[r] = "refused" /\ req[g] = "holding" /\ req[w] = "waiting"
        /\ Contains(acquiredQueue, g)

\* ----------------------------------------------------------------------- C5
\* C5 as stated: tryRun answers available iff isAvailable() and nobody waits,
\* changes nothing, and its thunk called at once starts the task.
C5_TryRunStartsAtOnce ==
    [][\A t \in Tasks :
          /\ TryRun(t, NoOptions, FALSE) =>
               /\ (pc'[t] = "thunk") <=> (isAvailable(TaskState) /\ Len(waitingQueue) = 0)
               /\ UNCHANGED <<options, waitingQueue, runningQueue, expiredQueue, log,
                              startOrder, submitOrder>>
          /\ (RunThunk(t) /\ isAvailable(TaskState) /\ Len(waitingQueue) = 0) =>
               /\ Len(runningQueue') = Len(runningQueue) + 1
               /\ Contains(runningQueue', t)
      ]_vars

\* C5 amended: as stated, except that the thunk called at once starts the
\* task only if the task's effective abort signal is not aborted; if it is
\* aborted the task is discarded with abortSignal and nothing starts.
C5_TryRun ==
    [][\A t \in Tasks :
          /\ TryRun(t, NoOptions, FALSE) =>
               /\ (pc'[t] = "thunk") <=> (isAvailable(TaskState) /\ Len(waitingQueue) = 0)
               /\ (pc'[t] = "unavailable") <=> ~(isAvailable(TaskState) /\ Len(waitingQueue) = 0)
               /\ UNCHANGED <<options, waitingQueue, runningQueue, expiredQueue, log,
                              startOrder, submitOrder>>
          /\ (RunThunk(t) /\ isAvailable(TaskState) /\ Len(waitingQueue) = 0) =>
               IF aborted[EffectiveSignal(t)]
                 THEN /\ runningQueue' = runningQueue
                      /\ entry'[t].discardReason = "abortSignal"
                      /\ log'[t] = <<"task-discarded">>
                 ELSE /\ runningQueue' = Append(runningQueue, t)
                      /\ log'[t] = <<"task-started">>
      ]_vars

\* tryRun has answered available (thunk not yet called) and unavailable
C5_Witness ==
    \E t, u \in Tasks : pc[t] = "thunk" /\ pc[u] = "unavailable"

\* ----------------------------------------------------------------------- C6
\* C6: a release function is idempotent and owner-bound: a call for a permit
\* that is held removes that permit only and emits lock-released once; a
\* call for a permit already released changes nothing, whoever holds the
\* slot by then; no permit ever has two lock-released events.
C6_ReleaseIdempotent ==
    [][\A r \in Requesters :
          /\ Release(r) =>
               IF Contains(acquiredQueue, r)
                 THEN /\ ~Contains(acquiredQueue', r)
                      /\ \A x \in Requesters \ {r} :
                             Contains(acquiredQueue, x) => Contains(acquiredQueue', x)
                      /\ Len(lockLog'[r]) = Len(lockLog[r]) + 1
                 ELSE UNCHANGED <<acquiredQueue, lockWaitingQueue, lockTimeoutId, lockLog, req>>
          /\ Count(lockLog'[r], "lock-released(false)")
               + Count(lockLog'[r], "lock-released(true)") <= 1
      ]_vars

\* a requester has called its release function twice while the slot it gave
\* back is held by another requester
C6_Witness ==
    \E r, x \in Requesters :
        /\ r # x /\ calls[r] = 2 /\ ~Contains(acquiredQueue, r)
        /\ Contains(acquiredQueue, x) /\ Len(acquiredQueue) = lockOptions.concurrency

\* ----------------------------------------------------------------------- C7
\* position of an element in a sequence without repetitions (0: absent)
IndexOf(seq, e) ==
    IF Contains(seq, e) THEN CHOOSE i \in 1..Len(seq) : seq[i] = e ELSE 0

\* the submitted tasks that have not been discarded, in submission order
SubmittedNotDiscarded ==
    SelectSeq(submitOrder, LAMBDA t : entry[t].discardReason = "none")

\* C7: under FIFO the task-started events come in the order of submission
\* of the tasks that were not discarded: the started tasks are the first
\* ones of the submitted, not discarded tasks, in that order.
C7_FifoStartOrder ==
    options.queueType = "FIFO" =>
        /\ Len(startOrder) <= Len(SubmittedNotDiscarded)
        /\ startOrder = SubSeq(SubmittedNotDiscarded, 1, Len(startOrder))

\* under FIFO with one slot, task 2 was submitted first (task 1 through the
\* thunk of tryRun, called later) and the three tasks started in that order
C7_Witness ==
    /\ options.queueType = "FIFO" /\ options.concurrency = 1
    /\ submitOrder = <<2, 1, 3>> /\ startOrder = <<2, 1, 3>>

\* ----------------------------------------------------------------------- C8
\* the task submitted by this step, if any
Submitted(t) == pc[t] \in {"idle", "thunk"} /\ pc'[t] \in {"acquiring", "resolved"}

\* an abort signal that task t may have been given is aborted after this step
SomeSignalAborted(t) == aborted'[t] \/ aborted'[ControllerSignal]

\* the waiting queue this step dispatches from: the queue, then the task
\* the step submits
DispatchQueue ==
    IF \E t \in Tasks : Submitted(t)
      THEN Append(waitingQueue, CHOOSE t \in Tasks : Submitted(t))
      ELSE waitingQueue

\* the tasks this step starts
StartedNow == {startOrder'[i] : i \in (Len(startOrder) + 1)..Len(startOrder')}

\* C8 as stated: under LIFO a task submitted while a slot is free and the
\* queue is empty starts at once, and a task is started only when every task
\* submitted after it and still waiting has been started before it.
C8_LifoMostRecentFirst ==
    [][options.queueType = "LIFO" =>
          /\ \A t \in Tasks :
                (Submitted(t) /\ isAvailable(TaskState) /\ waitingQueue = <<>>)
                   => /\ runningQueue' = Append(runningQueue, t)
                      /\ waitingQueue' = <<>>
          /\ \A n \in StartedNow : \A w \in Tasks :
                IndexOf(DispatchQueue, w) > IndexOf(DispatchQueue, n)
                   => /\ Contains(startOrder', w)
                      /\ IndexOf(startOrder', w) < IndexOf(startOrder', n)
      ]_vars

\* C8 amended: as stated for tasks whose effective abort signal is not
\* aborted; a task whose signal is aborted is never started: when its turn
\* comes it is discarded with abortSignal and the next most recent one is
\* taken, and submitted to a free slot and an empty queue it is discarded at
\* once.
C8_LifoMostRecentNotAborted ==
    [][options.queueType = "LIFO" =>
          /\ \A t \in Tasks :
                (Submitted(t) /\ isAvailable(TaskState) /\ waitingQueue = <<>>)
                   => /\ waitingQueue' = <<>>
                      /\ \/ /\ runningQueue' = Append(runningQueue, t)
                            /\ log'[t] = <<"task-started">>
                            /\ ~aborted'[EffectiveSignal(t)']
                         \/ /\ runningQueue' = runningQueue
                            /\ log'[t] = <<"task-discarded">>
                            /\ entry'[t].discardReason = "abortSignal"
                            /\ SomeSignalAborted(t)
          /\ \A n \in StartedNow :
                /\ ~aborted'[EffectiveSignal(n)']
                /\ \A w \in Tasks :
                      IndexOf(DispatchQueue, w) > IndexOf(DispatchQueue, n)
                         => \/ /\ Contains(startOrder', w)
                               /\ IndexOf(startOrder', w) < IndexOf(startOrder', n)
                            \/ /\ entry'[w].discardReason = "abortSignal"
                               /\ log'[w] = <<"task-discarded">>
                               /\ ~Contains(waitingQueue', w)
                               /\ SomeSignalAborted(w)
      ]_vars

\* under LIFO task 1 held the only slot while tasks 2 and 3 queued, and
\* task 3 started before task 2
C8_Witness ==
    /\ options.queueType = "LIFO"
    /\ submitOrder = <<1, 2, 3>> /\ startOrder = <<1, 3, 2>>

\* ----------------------------------------------------------------------- C9
\* task t has emitted task-finished or task-discarded
Settled(t) == Contains(log[t], "task-finished") \/ Contains(log[t], "task-discarded")

\* at most one of task-finished and task-discarded, at most once
AtMostOneFinal(t) == Count(log[t], "task-finished") + Count(log[t], "task-discarded") <= 1

\* C9 as stated: never both task-finished and task-discarded for a task, and
\* (the concurrency being at least 1) every submitted task eventually emits
\* one of them.
C9_ExactlyOneFinalEvent ==
    /\ [](\A t \in Tasks : AtMostOneFinal(t))
    /\ \A t \in Tasks : Contains(submitOrder, t) ~> Settled(t)

\* C9 amended: never both; (the concurrency being at least 1) every
\* submitted task eventually emits one of them when the queue is FIFO; under
\* LIFO a waiting task is overtaken by every later submission, for ever if
\* they never stop.
C9_ExactlyOneFinalEventFifo ==
    /\ [](\A t \in Tasks : AtMostOneFinal(t))
    /\ \A t \in Tasks :
          (Contains(submitOrder, t) /\ options.queueType = "FIFO") ~> Settled(t)

\* under FIFO a task has finished while a task submitted after it runs and a
\* third one waits
C9_Witness ==
    \E t, u, w \in Tasks :
        /\ options.queueType = "FIFO" /\ options.concurrency >= 1
        /\ Contains(log[t], "task-finished") /\ pc[t] = "fulfilled"
        /\ Contains(runningQueue, u) /\ Contains(waitingQueue, w)

\* ---------------------------------------------------------------------- C10
\* C10: task-discarded is emitted exactly once for a discarded task, which
\* has no other event (no task-started, task-finished, task-failure, no
\* release) and whose callable is never invoked; a task is discarded exactly
\* when it has a discardReason.
C10_DiscardedOnceAndNeverRun ==
    \A t \in Tasks :
        /\ (entry[t].discardReason # "none" \/ Contains(log[t], "task-discarded"))
              => /\ log[t] = <<"task-discarded">>
                 /\ entry[t].discardReason \in {"timeoutReached", "forced", "abortSignal"}
                 /\ pc[t] = "acquiring"
                 /\ ~Contains(waitingQueue, t) /\ ~Contains(runningQueue, t)
                 /\ t \notin expiredQueue
                 /\ ~entry[t].waitingTimeoutId /\ ~entry[t].releaseTimeoutId

\* three tasks were discarded: one by its waiting timer, one by
\* flushPendingTasks, one because of the abort signal
C10_Witness ==
    \E t, u, v \in Tasks :
        /\ entry[t].discardReason = "timeoutReached" /\ log[t] = <<"task-discarded">>
        /\ entry[u].discardReason = "forced" /\ log[u] = <<"task-discarded">>
        /\ entry[v].discardReason = "abortSignal" /\ log[v] = <<"task-discarded">>

\* ---------------------------------------------------------------------- C11
\* C11: task-released-before-finished is emitted at most once per task, and
\* when a task has emitted it, its task-finished comes later in the task's
\* events (and the task was released by the timer or by releaseRunningTasks).
C11_ReleasedOnceBeforeFinished ==
    \A t \in Tasks :
        /\ Count(log[t], "task-released-before-finished") <= 1
        /\ Contains(log[t], "task-released-before-finished") =>
              /\ entry[t].releaseReason \in {"timeoutReached", "forced"}
              /\ Contains(log[t], "task-finished") =>
                    IndexOf(log[t], "task-released-before-finished")
                       < IndexOf(log[t], "task-finished")
              /\ ~Contains(log[t], "task-finished") <=> t \in expiredQueue

\* a task released by its timer and one released by releaseRunningTasks have
\* both finished afterwards
C11_Witness ==
    \E t, u \in Tasks :
        /\ entry[t].releaseReason = "timeoutReached" /\ entry[u].releaseReason = "forced"
        /\ \A x \in {t, u} :
              /\ Contains(log[x], "task-released-before-finished")
              /\ log[x][Len(log[x])] = "task-finished"

\* ---------------------------------------------------------------------- C12
\* C12: task-finished is emitted exactly once for a started task whose
\* callable has returned or thrown (and for no other task); when the callable
\* threw, task-failure was emitted once, before task-finished; when it
\* returned, task-failure was not emitted.
C12_FinishedOnceFailureFirst ==
    \A t \in Tasks :
        /\ Count(log[t], "task-finished") <= 1
        /\ Contains(log[t], "task-finished") <=> pc[t] \in {"fulfilled", "rejected", "threw"}
        /\ Contains(log[t], "task-finished") =>
              /\ Contains(log[t], "task-started") /\ Contains(log[t], "invoked")
              /\ IndexOf(log[t], "invoked") < IndexOf(log[t], "task-finished")
        /\ Contains(log[t], "task-failure") <=> pc[t] \in {"rejected", "threw"}
        /\ Contains(log[t], "task-failure") =>
              /\ Count(log[t], "task-failure") = 1
              /\ IndexOf(log[t], "task-failure") < IndexOf(log[t], "task-finished")

\* a task has returned, another one has thrown after it had been released
\* before it finished, and a third one has thrown with a failing errorHandler
C12_Witness ==
    \E t, u, v \in Tasks :
        /\ pc[t] = "fulfilled" /\ Contains(log[t], "task-finished")
        /\ pc[u] = "rejected" /\ Contains(log[u], "task-released-before-finished")
        /\ pc[v] = "threw" /\ Contains(log[v], "task-finished")

\* ---------------------------------------------------------------------- C13
\* the waiting tasks whose effective abort signal is not aborted
Startable == {w \in Tasks : Contains(waitingQueue, w) /\ ~aborted[EffectiveSignal(w)]}

\* what the firing of t's release timer does to t itself, and what the
\* return or throw of a released task does
ReleaseTimerExpires(t) ==
    /\ ReleaseTimeout(t) =>
          /\ Contains(runningQueue, t) /\ ~Contains(runningQueue', t)
          /\ expiredQueue' = expiredQueue \cup {t}
          /\ entry'[t].releaseReason = "timeoutReached"
          /\ ~entry'[t].releaseTimeoutId
          /\ log'[t] = Append(log[t], "task-released-before-finished")
          /\ handlerLog'[t] = Append(handlerLog[t], "releaseTimeoutHandler")
          /\ pc'[t] = pc[t] /\ pc[t] = "executing"
    /\ t \in expiredQueue => pc[t] \in {"resolved", "executing"}
    /\ ((Return(t) \/ Throw(t)) /\ t \in expiredQueue) =>
          /\ expiredQueue' = expiredQueue \ {t}
          /\ log'[t][Len(log'[t])] = "task-finished"
          /\ Count(log'[t], "task-finished") = 1
          /\ UNCHANGED <<runningQueue, waitingQueue, startOrder>>
    /\ (t \in expiredQueue /\ t \notin expiredQueue') => pc'[t] \in {"fulfilled", "rejected"}

\* C13 as stated: the firing release timer takes the task out of the running
\* set into the expired set with reason timeoutReached and starts a waiting
\* task if there is one; the callable goes on, and when it returns
\* task-finished is emitted and the entry leaves the expired set.
C13_ReleaseTimerStartsWaiter ==
    [][\A t \in Tasks :
          /\ ReleaseTimerExpires(t)
          /\ (ReleaseTimeout(t) /\ waitingQueue # <<>>) =>
                Len(startOrder') = Len(startOrder) + 1
      ]_vars

\* C13 amended: as stated, except that the freed slot goes through one
\* dispatchNextTask(): a waiting task is started only if the running tasks
\* left are below the limit (they are not after the limit was lowered) and
\* some waiting task's abort signal is not aborted; then exactly one is started.
C13_ReleaseTimerDispatchesOnce ==
    [][\A t \in Tasks :
          /\ ReleaseTimerExpires(t)
          /\ ReleaseTimeout(t) =>
                IF Len(runningQueue) - 1 < options.concurrency /\ Startable # {}
                  THEN \E w \in Startable :
                          /\ startOrder' = Append(startOrder, w)
                          /\ runningQueue' = Append(Remove(runningQueue, t), w)
                  ELSE /\ startOrder' = startOrder
                       /\ runningQueue' = Remove(runningQueue, t)
      ]_vars

\* a task released by its timer is still executing, in the expired set,
\* while the task that waited runs in its slot
C13_Witness ==
    \E t, w \in Tasks :
        /\ t \in expiredQueue /\ entry[t].releaseReason = "timeoutReached"
        /\ pc[t] = "executing" /\ ~Contains(runningQueue, t)
        /\ Contains(runningQueue, w) /\ IndexOf(submitOrder, t) < IndexOf(submitOrder, w)
        /\ IndexOf(log[w], "task-started") = 1 /\ Len(runningQueue) = options.concurrency

\* ---------------------------------------------------------------------- C14
\* C14: the promise returned by run never rejects: it resolves to a rejected
\* Settled value exactly when the callable threw and to a fulfilled one when
\* it returned, also when the errorHandler throws, with or without a listener
\* of the 'error' event.
C14_RunNeverRejects ==
    \A t \in Tasks :
        /\ pc[t] # "threw"
        /\ pc[t] = "rejected" => Contains(log[t], "task-failure")
        /\ pc[t] = "fulfilled" => ~Contains(log[t], "task-failure")

\* ---------------------------------------------------------------------- C15
\* C15: the promise returned by run for a task that is discarded eventually
\* resolves to a rejected Settled value; it does not stay pending.
C15_DiscardedPromiseSettles ==
    \A t \in Tasks : (entry[t].discardReason # "none") ~> (pc[t] = "rejected")

\* ---------------------------------------------------------------------- C16
\* C16: once the controller's signal is aborted it stays aborted, no task
\* without a signal of its own is started any more, a task without one that
\* leaves the waiting queue, or is submitted and not kept waiting (it is not
\* when a slot is free and nothing waits), is discarded without taking a slot
\* (with abortSignal when it is dispatched), and the tasks that run go on:
\* the abort itself changes nothing else and their return or throw emits
\* task-finished.
C16_ControllerAbortStopsDispatch ==
    [][/\ aborted[ControllerSignal] =>
            /\ aborted'[ControllerSignal]
            /\ \A n \in StartedNow : entry'[n].options.signal = {n} /\ ~aborted'[n]
            /\ \A w \in Tasks :
                  (Contains(waitingQueue, w) /\ entry[w].options.signal = {}
                      /\ ~Contains(waitingQueue', w))
                    => /\ log'[w] = <<"task-discarded">>
                       /\ ~Contains(runningQueue', w)
                       /\ entry'[w].discardReason =
                             IF WaitingTimeout(w) THEN "timeoutReached"
                             ELSE IF FlushPendingTasks THEN "forced" ELSE "abortSignal"
            /\ \A t \in Tasks :
                  Run(t, NoOptions, FALSE)
                    => /\ ~Contains(runningQueue', t)
                       /\ IF isAvailable(TaskState) /\ waitingQueue = <<>>
                            THEN ~Contains(waitingQueue', t)
                            ELSE TRUE
                       /\ ~Contains(waitingQueue', t)
                            => /\ log'[t] = <<"task-discarded">>
                               /\ entry'[t].discardReason = "abortSignal"
            /\ \A r \in Tasks :
                  (Return(r) \/ Throw(r)) => log'[r][Len(log'[r])] = "task-finished"
       /\ Abort(ControllerSignal) =>
            UNCHANGED <<options, waitingQueue, runningQueue, expiredQueue, entry, pc, log,
                        startOrder, submitOrder>>
      ]_vars

\* the controller's signal was aborted while a task ran and another one
\* waited: the first one has finished, the second one was discarded
C16_Witness ==
    \E r, w \in Tasks :
        /\ aborted[ControllerSignal] /\ ~aborted[w]
        /\ pc[r] = "fulfilled" /\ Contains(log[r], "task-finished")
        /\ IndexOf(submitOrder, r) < IndexOf(submitOrder, w)
        /\ entry[w].discardReason = "abortSignal" /\ log[w] = <<"task-discarded">>
        /\ runningQueue = <<>> /\ startOrder = <<r>>

\* ---------------------------------------------------------------------- C17
\* the waiting tasks that the queue discipline serves before task n
ServedBefore(n) ==
    {w \in Tasks : /\ Contains(waitingQueue, w) /\ Contains(waitingQueue, n)
                   /\ IF options.queueType = "FIFO"
                        THEN IndexOf(waitingQueue, w) < IndexOf(waitingQueue, n)
                        ELSE IndexOf(waitingQueue, w) > IndexOf(waitingQueue, n)}

\* C17: the signal of the task options replaces the controller's for that
\* task only: a task submitted to a free slot and an empty queue is discarded
\* with abortSignal if its own signal, or without one the controller's, is
\* aborted, and is started otherwise; a waiting task is discarded with
\* abortSignal only if that signal is aborted and is started only if it is
\* not, the tasks served before it that were not started having been discarded.
C17_OwnSignalOverrides ==
    [][/\ \A t \in Tasks : \A pre \in BOOLEAN : \A opts \in SignalChoices(t) :
            (Run(t, opts, pre) /\ isAvailable(TaskState) /\ waitingQueue = <<>>) =>
                IF (IF opts.signal = {} THEN aborted[ControllerSignal] ELSE pre)
                  THEN /\ entry'[t].discardReason = "abortSignal"
                       /\ log'[t] = <<"task-discarded">>
                       /\ runningQueue' = runningQueue
                  ELSE /\ runningQueue' = Append(runningQueue, t)
                       /\ log'[t] = <<"task-started">>
       /\ \A w \in Tasks :
            (Contains(waitingQueue, w) /\ entry'[w].discardReason = "abortSignal")
               => aborted[EffectiveSignal(w)] /\ log'[w] = <<"task-discarded">>
       /\ \A n \in StartedNow :
            Contains(waitingQueue, n) =>
               /\ ~aborted[EffectiveSignal(n)]
               /\ \A w \in ServedBefore(n) :
                     \/ w \in StartedNow
                     \/ entry'[w].discardReason = "abortSignal"
      ]_vars

\* with one slot and the controller's signal aborted, the task without a
\* signal of its own was discarded and the one served after it, whose own
\* signal is not aborted, runs
C17_Witness ==
    \E r, w, v \in Tasks :
        /\ aborted[ControllerSignal] /\ ~aborted[w] /\ ~aborted[v]
        /\ options.queueType = "FIFO"
        /\ submitOrder = <<r, w, v>> /\ startOrder = <<r, v>>
        /\ entry[w].discardReason = "abortSignal"
        /\ entry[v].options.signal = {v} /\ runningQueue = <<v>>

\* ---------------------------------------------------------------------- C18
\* C18: a waiting timer is armed only for a task in the waiting queue, so it
\* never fires for one that was started, flushed or discarded on an aborted
\* signal; a task gets the reason timeoutReached or a call of
\* waitingTimeoutHandler only in a step that finds it waiting with its timer
\* armed under a waiting timeout above 0, and that step takes it out of the
\* queue, sets the reason, emits task-discarded as its only event and calls
\* the handler once.
C18_WaitingTimeoutDiscards ==
    /\ [](\A t \in Tasks :
            /\ entry[t].waitingTimeoutId => Contains(waitingQueue, t)
            /\ (entry[t].discardReason = "timeoutReached")
                  <=> Contains(handlerLog[t], "waitingTimeoutHandler"))
    /\ [][\A t \in Tasks :
            (\/ entry'[t].discardReason = "timeoutReached"
                  /\ entry[t].discardReason # "timeoutReached"
             \/ Count(handlerLog'[t], "waitingTimeoutHandler")
                  # Count(handlerLog[t], "waitingTimeoutHandler"))
              => /\ Contains(waitingQueue, t) /\ entry[t].waitingTimeoutId
                 /\ log[t] = <<>>
                 /\ Coalesce(entry[t].options.waitingTimeout, options.waitingTimeout) > 0
                 /\ waitingQueue' = Remove(waitingQueue, t)
                 /\ entry'[t].discardReason = "timeoutReached"
                 /\ ~entry'[t].waitingTimeoutId
                 /\ log'[t] = <<"task-discarded">>
                 /\ handlerLog'[t] = <<"waitingTimeoutHandler">>
                 /\ runningQueue' = runningQueue
         ]_vars

\* of two tasks that waited under a waiting timeout, one was discarded by its
\* timer and the other one was started and has finished
C18_Witness ==
    \E r, t, u \in Tasks :
        /\ options.waitingTimeout > 0
        /\ submitOrder = <<r, t, u>> /\ startOrder = <<r, u>>
        /\ pc[u] = "fulfilled" /\ handlerLog[u] = <<>>
        /\ entry[t].discardReason = "timeoutReached"
        /\ log[t] = <<"task-discarded">>
        /\ handlerLog[t] = <<"waitingTimeoutHandler">>

\* ---------------------------------------------------------------------- C19
\* C19: flushPendingTasks empties the waiting queue; each task that waited
\* gets the reason forced, task-discarded as its only event, its waiting
\* timer cancelled and no call of waitingTimeoutHandler, then and ever; the
\* running and expired sets, and the events of every other task, stay as they
\* were; with nothing waiting, as it is right after a flush, flushPendingTasks
\* changes nothing.
C19_FlushDiscardsWaiting ==
    /\ [](\A t \in Tasks :
            entry[t].discardReason = "forced"
               => /\ ~entry[t].waitingTimeoutId
                  /\ handlerLog[t] = <<>>
                  /\ log[t] = <<"task-discarded">>)
    /\ [](waitingQueue = <<>> => ~ENABLED <<FlushPendingTasks>>_vars)
    /\ [][FlushPendingTasks =>
            /\ waitingQueue' = <<>>
            /\ runningQueue' = runningQueue /\ expiredQueue' = expiredQueue
            /\ options' = options /\ handlerLog' = handlerLog
            /\ \A t \in Tasks :
                  IF Contains(waitingQueue, t)
                    THEN /\ entry'[t].discardReason = "forced"
                         /\ ~entry'[t].waitingTimeoutId
                         /\ log[t] = <<>> /\ log'[t] = <<"task-discarded">>
                    ELSE log'[t] = log[t] /\ entry'[t] = entry[t] /\ pc'[t] = pc[t]
         ]_vars

\* two tasks that waited with their timers armed were flushed while a third
\* one ran: it still runs and no handler was called
C19_Witness ==
    \E r, t, u \in Tasks :
        /\ t # u /\ options.waitingTimeout > 0
        /\ runningQueue = <<r>> /\ waitingQueue = <<>>
        /\ \A w \in {t, u} : /\ entry[w].discardReason = "forced"
                             /\ log[w] = <<"task-discarded">>
                             /\ handlerLog[w] = <<>>

\* ---------------------------------------------------------------------- C20
\* the smaller of two integers
Min(a, b) == IF a <= b THEN a ELSE b

\* what releaseRunningTasks does to the tasks that run when it is called, and
\* where the tasks that run afterwards come from
ReleaseRunningExpires ==
    ReleaseRunningTasks =>
        /\ \A r \in Tasks :
              Contains(runningQueue, r) =>
                 /\ ~Contains(runningQueue', r)
                 /\ r \in expiredQueue'
                 /\ entry'[r].releaseReason = "forced"
                 /\ ~entry'[r].releaseTimeoutId
                 /\ log'[r] = Append(log[r], "task-released-before-finished")
                 /\ pc'[r] = pc[r]
        /\ expiredQueue' = expiredQueue \cup {r \in Tasks : Contains(runningQueue, r)}
        /\ \A w \in Tasks :
              Contains(runningQueue', w) =>
                 /\ Contains(waitingQueue, w) /\ ~Contains(waitingQueue', w)
                 /\ log'[w] = <<"task-started">>

\* with no task running releaseRunningTasks changes nothing
ReleaseRunningNoop == runningQueue = <<>> => ~ENABLED <<ReleaseRunningTasks>>_vars

\* C20 as stated: every task that runs at the call goes to the expired set
\* with the reason forced and one task-released-before-finished, and afterwards
\* runningTasks() = min(concurrency, number of tasks that waited); with no
\* task running the call changes nothing.
C20_ReleaseRunningRefills ==
    /\ []ReleaseRunningNoop
    /\ [][/\ ReleaseRunningExpires
          /\ ReleaseRunningTasks =>
                Len(runningQueue') = Min(options.concurrency, Len(waitingQueue))
         ]_vars

\* C20 amended: as stated, except that each release is followed by one
\* dispatchNextTask(), which skips and discards the waiting tasks whose abort
\* signal is aborted: afterwards runningTasks() is the smallest of the
\* concurrency, the number of waiting tasks whose signal is not aborted and
\* the number of tasks that ran at the call.
C20_ReleaseRunningRefillsOnePerRelease ==
    /\ []ReleaseRunningNoop
    /\ [][/\ ReleaseRunningExpires
          /\ ReleaseRunningTasks =>
                /\ Len(runningQueue') =
                      Min(Min(options.concurrency, Cardinality(Startable)),
                          Len(runningQueue))
                /\ Len(startOrder') = Len(startOrder) + Len(runningQueue')
                /\ \A w \in Tasks :
                      (Contains(waitingQueue, w) /\ ~Contains(waitingQueue', w)
                          /\ ~Contains(runningQueue', w))
                        => /\ aborted[EffectiveSignal(w)]
                           /\ entry'[w].discardReason = "abortSignal"
         ]_vars

\* two tasks were released by releaseRunningTasks and still execute in the
\* expired set; the task that waited runs
C20_Witness ==
    \E r, q, w \in Tasks :
        /\ r # q /\ expiredQueue = {r, q}
        /\ \A x \in {r, q} : /\ entry[x].releaseReason = "forced"
                             /\ pc[x] = "executing"
                             /\ Count(log[x], "task-released-before-finished") = 1
        /\ runningQueue = <<w>> /\ startOrder[3] = w /\ Len(startOrder) = 3
        /\ options.concurrency = 2

\* ---------------------------------------------------------------------- C21
\* C21: when changeConcurrentLimit has raised the limit, waiting tasks have
\* been started until the running tasks are no fewer than the new limit or
\* no task waits.
C21_RaiseAdmitsWaiters ==
    [][options'.concurrency > options.concurrency
          => \/ Len(runningQueue') >= options'.concurrency
             \/ waitingQueue' = <<>>
      ]_vars

\* ---------------------------------------------------------------------- C22
\* C22: a step that lowers the limit changes nothing but the limit: the
\* running and expired sets, the waiting queue, every entry and the events
\* stay as they were; and whenever a task is started the running tasks,
\* it included, are within the limit in force, so that none is started before
\* the running tasks have dropped below a lowered limit.
C22_LoweringEvictsNothing ==
    [][/\ options'.concurrency < options.concurrency
            => /\ UNCHANGED <<aborted, waitingQueue, runningQueue, expiredQueue, entry, pc,
                              log, startOrder, submitOrder, handlerLog, errorListener>>
               /\ options' = [options EXCEPT !.concurrency = options'.concurrency]
               /\ options'.concurrency >= 1
       /\ startOrder' # startOrder
            => Len(runningQueue') <= options'.concurrency
      ]_vars

\* the limit was lowered to 1 while two tasks ran and a third one waited:
\* both still run and the third one still waits
C22_Witness ==
    /\ options.concurrency = 1 /\ Len(runningQueue) = 2 /\ Len(waitingQueue) = 1
    /\ expiredQueue = {}
    /\ \A t \in Tasks : Contains(waitingQueue, t) => log[t] = <<>>

\* ---------------------------------------------------------------------- C23
\* the arguments that are null, undefined, NaN, not an integer or below 1
InvalidLimits ==
    {raw \in WideLimits : raw.kind # "number" \/ raw.tenths % 10 # 0 \/ raw.tenths < 10}

\* C23: in every state changeConcurrentLimit with null, undefined, NaN, a
\* number that is not an integer or a number below 1 completes and changes
\* nothing: neither the limit nor a queue nor anything else.
C23_InvalidLimitIgnored ==
    \A raw \in InvalidLimits :
        /\ ENABLED ChangeConcurrentLimit(raw)
        /\ ~ENABLED <<ChangeConcurrentLimit(raw)>>_vars

\* a state with a raised limit, tasks running and a task waiting, in which
\* each invalid argument is accepted by changeConcurrentLimit
C23_Witness ==
    /\ options.concurrency = 2 /\ Len(runningQueue) = 2 /\ Len(waitingQueue) = 1
    /\ {raw.kind : raw \in InvalidLimits} = {"undefined", "null", "NaN", "number"}
    /\ {raw.tenths : raw \in InvalidLimits} = {-10, 0, 15}
    /\ \A raw \in InvalidLimits : ENABLED ChangeConcurrentLimit(raw)

\* ---------------------------------------------------------------------- C24
\* C24: the concurrency of both controllers is at least 1 after construction
\* and from then on, whatever value was passed: the sanitized value of every
\* input is at least 1.
C24_ConcurrencyAtLeastOne ==
    /\ options.concurrency >= 1
    /\ lockOptions.concurrency >= 1
    /\ \A raw \in RawConcurrency : sanitizeOptions(raw) >= 1

\* ---------------------------------------------------------------------- C25
\* C25: when the release timer of an acquired permit fires,
\* releaseTimeoutHandler is called and then the permit is released:
\* lock-released is emitted with timeoutReached = true and the next waiter by
\* queue discipline, if any, acquires; if the handler threw, an 'error' event
\* with the code release-timeout-handler-failure was emitted before that.
C25_ReleaseTimeoutReleases ==
    [][\A r \in Requesters :
          lockHandlerLog'[r] # lockHandlerLog[r] =>
             /\ lockOptions.releaseTimeout > 0
             /\ Len(lockHandlerLog'[r]) = 1
             /\ lockHandlerLog'[r][1].events = Len(lockLog[r])
             /\ Contains(acquiredQueue, r) /\ ~Contains(acquiredQueue', r)
             /\ lockLog'[r][Len(lockLog'[r])] = "lock-released(true)"
             /\ IF LockReleaseTimeoutHandlerThrows(r)
                  THEN lockLog'[r] = lockLog[r] \o <<"error:release-timeout-handler-failure",
                                                     "lock-released(true)">>
                  ELSE lockLog'[r] = Append(lockLog[r], "lock-released(true)")
             /\ IF lockWaitingQueue = <<>>
                  THEN acquiredQueue' = Remove(acquiredQueue, r)
                  ELSE \E next \in getNextLockToRun(LockState) :
                          /\ acquiredQueue' = Append(Remove(acquiredQueue, r), next)
                          /\ lockWaitingQueue' = LockQueueAfterNext(LockState)
                          /\ req'[next] = "holding"
      ]_vars

\* ---------------------------------------------------------------------- C26
\* C26: when waitingTimeoutHandler, releaseTimeoutHandler or errorHandler
\* throws, the 'error' event is emitted for the task with the code of that
\* handler (a listener, if there is one, receives it), the promise of run
\* does not reject, and the rest is as after a
\* handler that returns: the task has left the waiting queue with the reason
\* timeoutReached, or has left the running tasks, and a freed slot went
\* through dispatchNextTask.
C26_HandlerFailureContained ==
    [][\A t \in Tasks :
          /\ WaitingTimeoutHandlerThrows(t) =>
                /\ log'[t] = IF errorListener
                               THEN <<"task-discarded", "error:waiting-timeout-handler-failure">>
                               ELSE <<"task-discarded">>
                /\ waitingQueue' = Remove(waitingQueue, t)
                /\ entry'[t].discardReason = "timeoutReached"
                /\ runningQueue' = runningQueue /\ pc' = pc
          /\ ReleaseTimeoutHandlerThrows(t) =>
                /\ log'[t] = log[t] \o (IF errorListener
                                           THEN <<"task-released-before-finished",
                                                  "error:release-timeout-handler-failure">>
                                           ELSE <<"task-released-before-finished">>)
                /\ t \in expiredQueue' /\ entry'[t].releaseReason = "timeoutReached"
                /\ pc'[t] = pc[t]
                /\ IF Len(runningQueue) - 1 < options.concurrency /\ Startable # {}
                     THEN \E w \in Startable :
                             runningQueue' = Append(Remove(runningQueue, t), w)
                     ELSE runningQueue' = Remove(runningQueue, t)
          /\ ThrowErrorHandlerThrows(t) =>
                /\ pc'[t] = "rejected"
                /\ errorListener => Contains(log'[t], "error:error-handler-failure")
                /\ log'[t][Len(log'[t])] = "task-finished"
                /\ ~Contains(runningQueue', t) /\ t \notin expiredQueue'
                /\ IF Len(Remove(runningQueue, t)) < options.concurrency /\ Startable # {}
                     THEN \E w \in Startable :
                             runningQueue' = Append(Remove(runningQueue, t), w)
                     ELSE runningQueue' = Remove(runningQueue, t)
      ]_vars

\* ---------------------------------------------------------------------- C27
\* C27: releaseAcquiredLocks releases every permit acquired at the call, with
\* one lock-released with timeoutReached = false for each; as many waiters as
\* permits were released, or all of them if they are fewer, acquire in the
\* order of the queue discipline and the other ones keep waiting in order;
\* afterwards isAvailable() is true exactly if fewer requesters than the
\* concurrency were waiting; with nothing acquired the call changes nothing.
C27_ReleaseAcquiredLocks ==
    /\ [](acquiredQueue = <<>> => ~ENABLED <<ReleaseAcquiredLocks>>_vars)
    /\ [][ReleaseAcquiredLocks =>
            LET n == Min(Len(acquiredQueue), Len(lockWaitingQueue))
                w == Len(lockWaitingQueue)
            IN /\ \A r \in Requesters :
                     Contains(acquiredQueue, r) =>
                        /\ ~Contains(acquiredQueue', r)
                        /\ lockLog'[r] = Append(lockLog[r], "lock-released(false)")
                        /\ ~lockTimeoutId'[r]
               /\ Len(acquiredQueue') = n
               /\ \A i \in 1..n :
                     /\ acquiredQueue'[i] = IF lockOptions.queueType = "FIFO"
                                              THEN lockWaitingQueue[i]
                                              ELSE lockWaitingQueue[w - i + 1]
                     /\ req'[acquiredQueue'[i]] = "holding"
                     /\ lockLog'[acquiredQueue'[i]] = <<"lock-acquired">>
               /\ lockWaitingQueue' = IF lockOptions.queueType = "FIFO"
                                        THEN SubSeq(lockWaitingQueue, n + 1, w)
                                        ELSE SubSeq(lockWaitingQueue, 1, w - n)
               /\ ~(Len(acquiredQueue') >= lockOptions'.concurrency)
                     <=> w < lockOptions.concurrency
               /\ lockOptions' = lockOptions
         ]_vars

\* two permits were released by the controller, not by their holders nor by
\* a timer, and a requester that waited holds one now
C27_Witness ==
    \E r, q, w \in Requesters :
        /\ r # q /\ lockOptions.concurrency = 2
        /\ \A x \in {r, q} : /\ lockLog[x] = <<"lock-acquired", "lock-released(false)">>
                             /\ calls[x] = 0
        /\ acquiredQueue = <<w>> /\ req[w] = "holding" /\ lockWaitingQueue = <<>>

\* ---------------------------------------------------------------------- C28
\* the indices passed to isStepLockLimitReached: the valid ones, 0..NumSteps-1,
\* and some on either side
StepIndices == (-2)..(NumSteps + 1)

\* C28: isStepLockLimitReached(i) is false for an index that is not one of a
\* step, and for a step it is true exactly when the permits acquired on the
\* lock of that step are not fewer than the concurrency of that lock.
C28_StepLockLimitReached ==
    \A i \in StepIndices :
        isStepLockLimitReached(i) <=>
            /\ i \in 0..(NumSteps - 1)
            /\ Len(stepLocks[i + 1].acquiredQueue) >= stepLocks[i + 1].options.concurrency

\* a permit is acquired on each of two steps; the first step, of concurrency
\* 1, has reached its limit and the second one, of concurrency 2, has not
C28_Witness ==
    /\ stepLocks[1].options.concurrency = 1 /\ Len(stepLocks[1].acquiredQueue) = 1
    /\ stepLocks[2].options.concurrency = 2 /\ Len(stepLocks[2].acquiredQueue) = 1
    /\ isStepLockLimitReached(0) /\ ~isStepLockLimitReached(1)
    /\ ~isStepLockLimitReached(2) /\ ~isStepLockLimitReached(-1)

\* ---------------------------------------------------------------------- C29
\* no requester waits on any step lock
NoStepWaiter == \A i \in DOMAIN stepLocks : stepLocks[i].waitingQueue = <<>>

\* no step has reached its limit
NoStepLimitReached == \A i \in 0..(NumSteps - 1) : ~isStepLockLimitReached(i)

\* releaseAll releases every permit acquired on every step lock, with one
\* lock-released for each
ReleaseAllReleases ==
    ReleaseAll =>
        \A i \in DOMAIN stepLocks : \A r \in Requesters :
            Contains(stepLocks[i].acquiredQueue, r) =>
                /\ ~Contains(stepLocks'[i].acquiredQueue, r)
                /\ stepLocks'[i].log[r] = Append(stepLocks[i].log[r], "lock-released(false)")

\* C29: releaseAll releases every permit acquired on every step lock, and if
\* no requester waits on any step lock when it is called, no step has
\* reached its limit afterwards (also when it found nothing to release).
C29_ReleaseAllFreesSteps ==
    /\ []((NoStepWaiter /\ \A i \in DOMAIN stepLocks : stepLocks[i].acquiredQueue = <<>>)
             => NoStepLimitReached)
    /\ [][/\ ReleaseAllReleases
          /\ (ReleaseAll /\ NoStepWaiter) => NoStepLimitReached'
         ]_vars

\* the same for step concurrencies that the constructor of the lock leaves
\* at 1 or more
C29_ForPositiveConcurrency ==
    /\ []((/\ \A i \in DOMAIN stepLocks : stepLocks[i].options.concurrency >= 1
           /\ NoStepWaiter /\ \A i \in DOMAIN stepLocks : stepLocks[i].acquiredQueue = <<>>)
             => NoStepLimitReached)
    /\ [][/\ ReleaseAllReleases
          /\ (/\ \A i \in DOMAIN stepLocks : stepLocks[i].options.concurrency >= 1
              /\ ReleaseAll /\ NoStepWaiter) => NoStepLimitReached'
         ]_vars

\* ---------------------------------------------------------------------- C30
\* an operation of a task on the lock of step i leaves the locks of the
\* other steps as they are
StepsIndependent ==
    \A i \in DOMAIN stepLocks : \A r \in Requesters :
        (StepAcquire(i, r) \/ StepTryAcquire(i, r) \/ StepRelease(i, r))
           => \A j \in DOMAIN stepLocks \ {i} :
                 /\ stepLocks'[j].acquiredQueue = stepLocks[j].acquiredQueue
                 /\ stepLocks'[j].waitingQueue = stepLocks[j].waitingQueue

\* C30: at any time the tasks that hold the lock of a step are no more than
\* the concurrency of that step, and acquiring or releasing the lock of a
\* step changes neither the acquired set nor the waiting queue of another.
C30_StepsEnforceOwnCap ==
    /\ [](\A i \in DOMAIN stepLocks :
             Len(stepLocks[i].acquiredQueue) <= stepLocks[i].options.concurrency)
    /\ [][StepsIndependent]_vars

\* the same for step concurrencies that are not negative in the lock
C30_ForNonNegativeConcurrency ==
    /\ [](\A i \in DOMAIN stepLocks :
             stepLocks[i].options.concurrency >= 0
                => Len(stepLocks[i].acquiredQueue) <= stepLocks[i].options.concurrency)
    /\ [][StepsIndependent]_vars

\* ---------------------------------------------------------------------- C31
\* C31: in every state a task waits only if the running tasks are at least as
\* many as the concurrency limit.
C31_WorkConserving ==
    waitingQueue # <<>> => Len(runningQueue) >= options.concurrency

\* ---------------------------------------------------------------------- C32
\* the callable of a task is invoked only after its task-started
StartedBeforeInvoked ==
    \A t \in Tasks :
        Contains(log[t], "invoked") =>
            /\ Contains(log[t], "task-started")
            /\ IndexOf(log[t], "task-started") < IndexOf(log[t], "invoked")

\* C32 as stated: task-started comes before the invocation of the callable,
\* and the step that submits a task while a slot is free and nothing waits
\* emits its task-started.
C32_StartedAtSubmission ==
    /\ []StartedBeforeInvoked
    /\ [][\A t \in Tasks :
            (Submitted(t) /\ isAvailable(TaskState) /\ waitingQueue = <<>>)
               => log'[t] = <<"task-started">> /\ Contains(runningQueue', t)
         ]_vars

\* C32 amended: as stated, unless the abort signal of the controller (the
\* tasks here pass none of their own) is aborted: the step that submits the
\* task then emits its task-discarded, with the reason abortSignal, and no
\* task-started.
C32_StartedOrDiscardedAtSubmission ==
    /\ []StartedBeforeInvoked
    /\ [][\A t \in Tasks :
            (Submitted(t) /\ isAvailable(TaskState) /\ waitingQueue = <<>>)
               => IF aborted[ControllerSignal]
                    THEN /\ log'[t] = <<"task-discarded">>
                         /\ entry'[t].discardReason = "abortSignal"
                         /\ ~Contains(runningQueue', t) /\ ~Contains(waitingQueue', t)
                    ELSE /\ log'[t] = <<"task-started">>
                         /\ Contains(runningQueue', t) /\ pc'[t] = "resolved"
         ]_vars

\* the first task was started by its submission and its callable is invoked;
\* the second one, submitted to the slot that was still free after the
\* controller's signal was aborted, was discarded
C32_Witness ==
    \E t, u \in Tasks :
        /\ log[t] = <<"task-started", "invoked">>
        /\ submitOrder = <<t, u>> /\ startOrder = <<t>>
        /\ options.concurrency = 2 /\ aborted[ControllerSignal]
        /\ log[u] = <<"task-discarded">> /\ entry[u].discardReason = "abortSignal"


\* C33: when the release timer of a task fires, the slot is freed before
\* releaseTimeoutHandler is called: the handler finds the task out of the
\* running tasks and among the expired ones, and a waiter that takes the freed
\* slot has emitted task-started by then.
C33_SlotFreedBeforeHandler ==
    [][\A t \in Tasks :
          ReleaseTimeout(t) =>
              \E v \in handlerView'[t] :
                  /\ ~v.running
                  /\ v.expired
                  /\ v.started = Len(startOrder')
                  /\ \A u \in Tasks :
                         (Contains(runningQueue', u) /\ ~Contains(runningQueue, u)) =>
                             /\ Contains(startOrder', u)
                             /\ Contains(log'[u], "task-started")]_vars

\* a release timer has fired, its handler was called, and a waiter took the slot
C33_Witness ==
    \E t, u \in Tasks :
        /\ t # u
        /\ handlerLog[t] = <<"releaseTimeoutHandler">>
        /\ entry[t].releaseReason = "timeoutReached"
        /\ handlerView[t] = {[running |-> FALSE, expired |-> TRUE, started |-> 2]}
        /\ startOrder = <<t, u>>
        /\ t \in expiredQueue
        /\ runningQueue = <<u>>
        /\ options.concurrency = 1

\* C34: the thunk of tryRun(task, ...args) or tryRunWithOptions(task, options,
\* ...args) calls the task with exactly the argument sequence args, as
\* run(task, ...args) does.
C34_ThunkPassesArgs ==
    [][\A t \in Tasks : Invoke(t) => CalledWith(t) = Arguments(CallerArgs(t))]_vars

\* the part that holds: run and runWithOptions hand args over for task(...args)
C34_RunPassesArgs ==
    [][\A t \in Tasks : \A opts \in SignalChoices(t), pre \in BOOLEAN :
          (Run(t, opts, pre) /\ entry'[t].discardReason = "none") =>
              entry'[t].args = Arguments(CallerArgs(t))]_vars

\* the states of a submitted task
IsWaiting(t) == Contains(waitingQueue, t)
IsRunning(t) == Contains(runningQueue, t)
IsExpired(t) == t \in expiredQueue
IsTerminal(t) == entry[t].discardReason # "none" \/ Contains(log[t], "task-finished")

\* C35: every submitted task is in exactly one of the states waiting, running,
\* expired, terminal (finished or discarded); no entry is in two of the
\* waiting, running and expired collections; the tasks that emitted
\* task-started and whose callable has not returned yet are the running and
\* the expired ones.
C35_StatePartition ==
    /\ \A t \in Tasks :
           pc[t] \notin {"idle", "thunk", "unavailable"} =>
               Count(<<IsWaiting(t), IsRunning(t), IsExpired(t), IsTerminal(t)>>, TRUE) = 1
    /\ \A t \in Tasks :
           Count(<<IsWaiting(t), IsRunning(t), IsExpired(t)>>, TRUE) <= 1
    /\ {t \in Tasks : Contains(log[t], "task-started") /\ pc[t] \in {"resolved", "executing"}}
           = {t \in Tasks : IsRunning(t)} \cup expiredQueue

\* one task waits, one runs, one is expired and still executing, and the
\* controller is full
C35_Witness ==
    \E t, u, w \in Tasks :
        /\ IsExpired(t) /\ pc[t] = "executing" /\ entry[t].releaseReason = "forced"
        /\ IsRunning(u) /\ pc[u] = "executing"
        /\ IsWaiting(w)
        /\ options.concurrency = 1

\* the timeout in force for task t: its own when it passed one, else the controller's
EffectiveWaitingTimeout(t) == Coalesce(entry[t].options.waitingTimeout, options.waitingTimeout)
EffectiveReleaseTimeout(t) == Coalesce(entry[t].options.releaseTimeout, options.releaseTimeout)

\* C36: a waiting task's waiting timer and a running task's release timer are
\* armed with the task's own timeout when it passed one (not armed when that
\* is 0, whatever the controller's), and with the controller's otherwise.
C36_PerTaskTimeouts ==
    \A t \in Tasks :
        /\ IsWaiting(t) =>
               /\ entry[t].waitingTimeoutId = (EffectiveWaitingTimeout(t) > 0)
               /\ entry[t].waitingTimerDelay = EffectiveWaitingTimeout(t)
        /\ IsRunning(t) =>
               /\ entry[t].releaseTimeoutId = (EffectiveReleaseTimeout(t) > 0)
               /\ entry[t].releaseTimerDelay = EffectiveReleaseTimeout(t)

\* with controller timeouts of 30: one task runs with its release timer
\* disabled by a per-task 0, one waits with a per-task waiting timer of 60, one
\* waits with the controller's
C36_Witness ==
    \E t, u, w \in Tasks :
        /\ options.releaseTimeout = 30 /\ options.waitingTimeout = 30
        /\ IsRunning(t) /\ entry[t].options.releaseTimeout = {0}
        /\ ~entry[t].releaseTimeoutId
        /\ IsWaiting(u) /\ entry[u].options.waitingTimeout = {60}
        /\ entry[u].waitingTimeoutId /\ entry[u].waitingTimerDelay = 60
        /\ IsWaiting(w) /\ entry[w].options.waitingTimeout = {}
        /\ entry[w].waitingTimeoutId /\ entry[w].waitingTimerDelay = 30

\* the waiters a step promotes, in the order of their promotion
Promoted == SelectSeq(acquiredQueue', LAMBDA r : req[r] = "waiting")

\* C37: the waiters promoted by a step are taken one after the other from the
\* oldest end of the waiting queue under FIFO and from its newest end under
\* LIFO; a requester that finds a free permit and an empty queue holds the
\* permit when acquire returns, and is not queued.
C37_LockQueueDiscipline ==
    [][/\ \A r \in Requesters :
              (req[r] = "waiting" /\ req'[r] = "holding") => Contains(Promoted, r)
       /\ Len(Promoted) <= Len(lockWaitingQueue)
       /\ \A i \in 1..Len(Promoted) :
              Promoted[i] = IF lockOptions.queueType = "FIFO" THEN lockWaitingQueue[i]
                            ELSE lockWaitingQueue[Len(lockWaitingQueue) + 1 - i]
       /\ \A r \in Requesters :
              (Acquire(r) /\ LockIsAvailable(LockState) /\ lockWaitingQueue = <<>>) =>
                  /\ req'[r] = "holding"
                  /\ Contains(acquiredQueue', r)
                  /\ lockWaitingQueue' = <<>>]_vars

\* under LIFO a permit was released while two requesters waited: one of them
\* was promoted, the other one still waits
C37_Witness ==
    \E r, u, w \in Requesters :
        /\ lockOptions.queueType = "LIFO" /\ lockOptions.concurrency = 1
        /\ lockLog[r] = <<"lock-acquired", "lock-released(false)">>
        /\ lockWaitingQueue = <<u>>
        /\ acquiredQueue = <<w>>
        /\ lockLog[w] = <<"lock-acquired">>

\* C38: under FIFO with a concurrency of at least 1, when every permit is
\* released in the end, acquire never fails and every requester that waits is
\* granted a permit in the end, whatever requests arrive after its own.
C38_AcquireEventuallyGranted ==
    /\ [](\A r \in Requesters : req[r] \in {"idle", "waiting", "holding"})
    /\ \A r \in Requesters : (req[r] = "waiting") ~> (req[r] = "holding")

\* a requester holds the permit that another one released, a third one waits
C38_Witness ==
    \E r, u, w \in Requesters :
        /\ lockOptions.queueType = "FIFO" /\ lockOptions.concurrency = 1
        /\ lockLog[r] = <<"lock-acquired", "lock-released(false)">>
        /\ acquiredQueue = <<u>> /\ req[u] = "holding"
        /\ lockWaitingQueue = <<w>> /\ req[w] = "waiting"

\* C39: calling the thunk of tryRun never starts a task beyond the limit; when
\* the free slot was taken since tryRun, the task is put in the waiting queue
\* and nothing is started.
C39_ThunkRespectsLimit ==
    [][\A t \in Tasks :
          RunThunk(t) =>
              /\ Len(runningQueue') > Len(runningQueue) =>
                     Len(runningQueue') <= options.concurrency
              /\ ~isAvailable(TaskState) =>
                     /\ runningQueue' = runningQueue
                     /\ waitingQueue' = Append(waitingQueue, t)
                     /\ ~Contains(log'[t], "task-started")]_vars

\* a task submitted through the thunk of tryRun waits while the only slot,
\* free at the time of tryRun, is held by a task submitted after that
C39_Witness ==
    \E t, u \in Tasks :
        /\ t < u
        /\ options.concurrency = 1
        /\ runningQueue = <<u>>
        /\ waitingQueue = <<t>>
        /\ submitOrder = <<u, t>>
        /\ entry[t].args = AsOneArgument(AsOneArgument(Arguments(CallerArgs(t))))
        /\ log[t] = <<>>

\* C40: a task that emitted task-started has its callable invoked exactly
\* once: it is invoked by the step that follows the start of the task in its
\* caller, and by no other; a release before that step (forced, or by the
\* timer) leaves the task expired until its callable has run and returned or
\* thrown, which is when task-finished is emitted, and never earlier.
C40_StartedInvokedOnce ==
    /\ [](\A t \in Tasks :
             Contains(log[t], "task-started") =>
                 /\ Count(log[t], "invoked") = (IF pc[t] = "resolved" THEN 0 ELSE 1)
                 /\ pc[t] = "resolved" => ENABLED <<Invoke(t)>>_vars
                 /\ Contains(log[t], "task-finished") =>
                        pc[t] \in {"fulfilled", "rejected", "threw"})
    /\ [][\A t \in Tasks :
              /\ (Invoke(t) /\ IsExpired(t)) => (IsExpired(t))' /\ pc'[t] = "executing"
              /\ (Return(t) \/ Throw(t)) =>
                     /\ log'[t][Len(log'[t])] = "task-finished"
                     /\ Count(log'[t], "task-finished") = 1
                     /\ ~(IsExpired(t))']_vars

\* a task force-released before its callable was invoked has run and returned
C40_Witness ==
    \E t \in Tasks :
        /\ log[t] = <<"task-started", "task-released-before-finished", "invoked",
                      "task-finished">>
        /\ entry[t].releaseReason = "forced"
        /\ pc[t] = "fulfilled"
====
